---- MODULE Spec2Model ----
(***************************************************************************)
(* Booking console of 1MHouse: the availability grid of the calendar, the  *)
(* conflict check and the save workflow of the booking dialog, and the     *)
(* location-scoped loading of the home page.                                *)
(*                                                                         *)
(* A Date is an integer number of ticks; a calendar day is TicksPerDay     *)
(* ticks long, and day 0 is a Monday.                                      *)
(***************************************************************************)
EXTENDS Integers, Sequences, FiniteSets, TLC

VARIABLES
    \* AvailabilityCalendar (grid)
    rooms,               \* prop rooms: sequence of room ids
    initialBookings,     \* prop initialBookings: sequence of bookings
    bookings,            \* state bookings (day-normalized copy of the prop)
    currentDisplayDate,  \* prop currentDisplayDate (HomePage.currentDate)
    calendarData,        \* memo calendarData: one row of cells per room
    \* conflict check of the booking dialog, as a function of its inputs
    candidate,           \* the submitted form values
    editing,             \* the booking being edited, or NoBooking
    existingBookingsForRoom, \* what getBookingsByRoomId returned
    verdict,             \* Unchecked, or the result of the overlap loop
    \* the store and the booking dialog hosted by the calendar
    bookingsDB,          \* collection 'bookings': sequence of documents
    dialogOpen,          \* AvailabilityCalendar.dialogOpen (prop isOpen)
    selectedBooking,     \* AvailabilityCalendar.selectedBooking (prop booking)
    form,                \* the values held by react-hook-form
    formErrors,          \* field-level errors are shown
    isSubmitting,
    showOverlapAlert,
    pendingBookingData,
    selectedOverlappingBooking,
    tasks,               \* suspended onSubmit / saveBooking invocations
    lastToast,           \* title of the last toast
    signals,             \* number of onBookingUpdate calls
    submits,             \* number of onSubmit invocations
    warned,              \* history: the submission the overlap alert is about
    lastWrite,           \* history: the last resolved addBooking/updateBooking
    succeeded,           \* history: number of writes that succeeded
    \* HomePage
    allLocations,
    selectedLocationId,  \* "" when undefined
    allRoomsForSelectedLocation,
    allBookingsForSelectedLocation,
    isLoadingLocations,
    isLoadingLocationData,
    isSeeding,
    effectDeps,          \* the dependencies seen by the last run of the fetch effect
    loads,               \* suspended initialLoad / fetch / handleDataUpdate invocations
    issued,              \* number of invocations suspended so far
    switches,            \* number of handleLocationChange calls
    refreshes,           \* number of handleDataUpdate calls
    shownFor,            \* history: the location each displayed list was fetched for
    consoleErrors,       \* number of console.error calls made by the reads of the page
    \* the store besides the bookings
    locationsDB,         \* collection 'locations', in the order getDocs returns it
    roomsDB,             \* collection 'rooms', in the order getDocs returns it
    ops,                 \* suspended seedInitialData / deleteLocation / deleteRoom calls
    lastOp,              \* history: the last data-layer call that returned
    created,             \* number of documents ever created, per collection
    started,             \* number of data-layer calls made so far
    refused,             \* history: the deletes refused because of dependents
    \* AuthProvider
    isAdmin,
    isLoading,           \* AuthProvider.isLoading
    localStorage,        \* the item 'isAdmin': "true", or "" when absent
    authMounted,         \* the effect that reads localStorage has run
    logins,              \* suspended login calls
    authCalls,           \* number of login, logout and reload events
    storageFailed        \* history: an access to localStorage has thrown

gridVars == <<rooms, initialBookings, bookings, currentDisplayDate, calendarData>>
conflictVars == <<candidate, editing, existingBookingsForRoom, verdict>>
dialogVars == <<dialogOpen, selectedBooking, form, formErrors, isSubmitting,
                showOverlapAlert, pendingBookingData, selectedOverlappingBooking>>
historyVars == <<warned, lastWrite, succeeded>>
formVars == <<bookingsDB, dialogVars, tasks, lastToast, signals, submits, historyVars>>
pageVars == <<allLocations, selectedLocationId, allRoomsForSelectedLocation,
              allBookingsForSelectedLocation, isLoadingLocations, isLoadingLocationData,
              isSeeding, effectDeps, loads, issued, switches, refreshes, shownFor,
              consoleErrors>>
storeVars == <<locationsDB, roomsDB, ops, lastOp, created, started, refused>>
authVars == <<isAdmin, isLoading, localStorage, authMounted, logins, authCalls, storageFailed>>
vars == <<gridVars, conflictVars, formVars, pageVars, storeVars, authVars>>

----------------------------------------------------------------------------
\* Bounds of the model

\* number of distinct times of day a Date can carry (0 is midnight)
TicksPerDay == 2
\* bookings of the grid inputs start and end on days FirstDay .. LastDay
FirstDay == 3
LastDay == 7
\* longest booking list handed to the grid
MaxBookings == 2
\* weeks 0 .. MaxWeek can be displayed
MaxWeek == 1
\* the dates of the conflict check lie on days 0 .. ConflictLastDay
ConflictLastDay == 2
\* the dates of the booking dialog lie on days 0 .. FormLastDay
FormLastDay == 1
\* number of submissions of the booking form that reach onSubmit
MaxSubmits == 2
\* number of bookings stored before the dialog is first opened
MaxStored == 1
\* number of times the admin switches the location on the home page
MaxSwitches == 2
\* number of data-changed signals received by the home page
MaxRefreshes == 1

\* number of seedInitialData calls
MaxSeeds == 2
\* number of add and delete calls on the store
MaxStoreOps == 4
\* rooms and bookings ever created in the store
MaxCreatedRooms == 4
MaxCreatedBookings == 3

\* rooms of the largest location, and bookings stored, when a location is listed
MaxRooms == 31
MaxListed == 2

\* Program constants
daysToShow == 7
weekStartsOn == 1

NoBooking == [id |-> "none"]
Null == [id |-> "null"]
Unchecked == [id |-> "unchecked"]
RoomIds == {"r1", "r2"}
BookingStatuses == {"booked", "pending", "maintenance"}

Min(S) == CHOOSE x \in S : \A y \in S : x <= y

----------------------------------------------------------------------------
\* date-fns

startOfDayNoop(d) == d
startOfDay(d) == d - (d % TicksPerDay)

addDays(d, n) == d + n * TicksPerDay

addWeeks(d, n) == addDays(d, 7 * n)
subWeeks(d, n) == addDays(d, -(7 * n))

\* day 0 is a Monday, so the weekday (0 = Sunday) of day k is (k + 1) % 7
getDay(d) == ((d \div TicksPerDay) + 1) % 7

startOfWeek(d, wso) ==
    LET day == getDay(d)
        diff == (IF day < wso THEN 7 ELSE 0) + day - wso
    IN  startOfDay(addDays(d, -diff))

\* an interval that leaves out its end
isWithinIntervalOpenEnd(d, start, end) == d >= start /\ d < end
isWithinInterval(d, start, end) == d >= start /\ d <= end

----------------------------------------------------------------------------
\* AvailabilityCalendar

\* the bookings taken over with the times of day they carry
unprocessedInitialBookings(bs) == bs
processedInitialBookings(bs) ==
    [i \in DOMAIN bs |->
        [bs[i] EXCEPT !.startDate = startOfDay(bs[i].startDate),
                      !.endDate = startOfDay(bs[i].endDate)]]

weekDays(cur) ==
    LET start == startOfWeek(cur, weekStartsOn)
    IN  [i \in 1..daysToShow |-> startOfDay(addDays(start, i - 1))]

\* the last element with the status, or undefined
findLastStatus(bs, st) ==
    LET hits == {i \in DOMAIN bs : bs[i].status = st}
    IN  IF hits = {} THEN NoBooking ELSE bs[CHOOSE x \in hits : \A y \in hits : x >= y]
\* Array.prototype.find: the first element with the status, or undefined
findStatus(bs, st) ==
    LET hits == {i \in DOMAIN bs : bs[i].status = st}
    IN  IF hits = {} THEN NoBooking ELSE bs[Min(hits)]

someStatus(bs, st) == \E i \in DOMAIN bs : bs[i].status = st

dayBookingsOf(currentBookings, roomId, date) ==
    LET covers(b) == /\ b.roomId = roomId
                     /\ isWithinInterval(date, b.startDate, b.endDate)
    IN  SelectSeq(currentBookings, covers)

cellStatusNoPriority(dayBookings) ==
    IF Len(dayBookings) > 0 THEN dayBookings[1].status ELSE "available"

cellStatusOf(dayBookings) ==
    IF Len(dayBookings) > 0
    THEN IF someStatus(dayBookings, "booked") THEN "booked"
         ELSE IF someStatus(dayBookings, "maintenance") THEN "maintenance"
         ELSE IF someStatus(dayBookings, "pending") THEN "pending"
         ELSE "available"
    ELSE "available"

cellOf(currentBookings, roomId, date) ==
    LET dayBookings == dayBookingsOf(currentBookings, roomId, date)
        cellStatus == cellStatusOf(dayBookings)
    IN  [date |-> date,
         roomId |-> roomId,
         status |-> cellStatus,
         booking |-> IF cellStatus = "available" THEN NoBooking
                     ELSE findStatus(dayBookings, cellStatus)]

calendarDataOf(rs, currentBookings, cur) ==
    LET days == weekDays(cur)
    IN  [r \in DOMAIN rs |->
            [room |-> rs[r],
             row |-> [j \in DOMAIN days |-> cellOf(currentBookings, rs[r], days[j])]]]

----------------------------------------------------------------------------
\* Inputs of the grid

Dates(first, last) == (first * TicksPerDay) .. (last * TicksPerDay + TicksPerDay - 1)

\* bookings as the data layer hands them over: endDate >= startDate
BookingInputs(ids, first, last) ==
    {b \in [id : ids, roomId : RoomIds, guestName : {"guest"},
            startDate : Dates(first, last), endDate : Dates(first, last),
            status : BookingStatuses] : b.endDate >= b.startDate}

BookingLists ==
    UNION {{bs \in [1..n -> BookingInputs({"b1", "b2", "b3"}, FirstDay, LastDay)] :
                \A i \in 1..n : bs[i].id = <<"b1", "b2", "b3">>[i]} : n \in 0..MaxBookings}

FormIdle ==
    /\ dialogOpen = FALSE
    /\ selectedBooking = NoBooking
    /\ form = Null
    /\ formErrors = FALSE
    /\ isSubmitting = FALSE
    /\ showOverlapAlert = FALSE
    /\ pendingBookingData = Null
    /\ selectedOverlappingBooking = Null
    /\ tasks = {}
    /\ lastToast = "none"
    /\ signals = 0
    /\ submits = 0
    /\ warned = Null
    /\ lastWrite = Null
    /\ succeeded = 0

\* the history of lists that were cleared or never loaded
NothingShown ==
    [rooms |-> "", bookings |-> "", roomsFetch |-> 0, bookingsFetch |-> 0,
     by |-> "none", roomsOk |-> TRUE, bookingsOk |-> TRUE, locationsOk |-> TRUE]

PageIdle ==
    /\ allLocations = <<>>
    /\ selectedLocationId = ""
    /\ allRoomsForSelectedLocation = <<>>
    /\ allBookingsForSelectedLocation = <<>>
    /\ isLoadingLocations = TRUE
    /\ isLoadingLocationData = FALSE
    /\ isSeeding = TRUE
    /\ effectDeps = <<"", TRUE, TRUE>>
    /\ loads = {}
    /\ issued = 0
    /\ switches = 0
    /\ refreshes = 0
    /\ shownFor = NothingShown
    /\ consoleErrors = 0

\* no data-layer call has been made on the store
NoCalls ==
    /\ ops = {}
    /\ lastOp = Null
    /\ started = [seeds |-> 0, others |-> 0]
    /\ refused = {}

AuthIdle ==
    /\ isAdmin = FALSE
    /\ isLoading = TRUE
    /\ localStorage = ""
    /\ authMounted = FALSE
    /\ logins = {}
    /\ authCalls = 0
    /\ storageFailed = FALSE

StoreIdle ==
    /\ locationsDB = <<>>
    /\ roomsDB = <<>>
    /\ created = [locations |-> 0, rooms |-> 0, bookings |-> 0]
    /\ NoCalls

ConflictIdle ==
    /\ candidate = NoBooking
    /\ editing = NoBooking
    /\ existingBookingsForRoom = <<>>
    /\ verdict = Unchecked

InitGrid ==
    /\ rooms = <<"r1", "r2">>
    /\ initialBookings \in BookingLists
    /\ bookings = processedInitialBookings(initialBookings)
    /\ currentDisplayDate = startOfWeek(0, weekStartsOn)
    /\ calendarData = calendarDataOf(rooms, bookings, currentDisplayDate)
    /\ ConflictIdle
    /\ bookingsDB = <<>>
    /\ FormIdle
    /\ PageIdle
    /\ StoreIdle
    /\ AuthIdle

\* HomePage.handleNavigate followed by the re-render of the calendar
handleNavigatePrev ==
    /\ currentDisplayDate > 0
    /\ currentDisplayDate' = subWeeks(currentDisplayDate, 1)
    /\ calendarData' = calendarDataOf(rooms, bookings, currentDisplayDate')
    /\ UNCHANGED <<rooms, initialBookings, bookings, conflictVars, formVars, pageVars, authVars, storeVars>>

handleNavigateNext ==
    /\ currentDisplayDate < addWeeks(0, MaxWeek)
    /\ currentDisplayDate' = addWeeks(currentDisplayDate, 1)
    /\ calendarData' = calendarDataOf(rooms, bookings, currentDisplayDate')
    /\ UNCHANGED <<rooms, initialBookings, bookings, conflictVars, formVars, pageVars, authVars, storeVars>>

NextGrid == handleNavigatePrev \/ handleNavigateNext

SpecGrid == InitGrid /\ [][NextGrid]_vars

----------------------------------------------------------------------------
\* Properties of the grid

DayOf(d) == d \div TicksPerDay

\* a booking of the room has the cell's calendar day within its inclusive
\* [startDate, endDate] day interval
Covering(roomId, date) ==
    {i \in DOMAIN initialBookings :
        /\ initialBookings[i].roomId = roomId
        /\ DayOf(initialBookings[i].startDate) <= DayOf(date)
        /\ DayOf(date) <= DayOf(initialBookings[i].endDate)}

CoveringStatuses(roomId, date) ==
    {initialBookings[i].status : i \in Covering(roomId, date)}

\* C3: a cell is 'available' iff no booking of its room has the cell's day
\* within its inclusive [startDate, endDate] day interval; the grid has one
\* row per room and one cell per day of the displayed week.
C3_AvailableIffUncovered ==
    /\ DOMAIN calendarData = DOMAIN rooms
    /\ \A r \in DOMAIN calendarData :
        /\ calendarData[r].room = rooms[r]
        /\ DOMAIN calendarData[r].row = 1..daysToShow
        /\ \A j \in 1..daysToShow :
            LET cell == calendarData[r].row[j]
            IN  /\ cell.roomId = rooms[r]
                /\ cell.date = addDays(currentDisplayDate, j - 1)
                /\ (cell.status = "available") <=> (Covering(rooms[r], cell.date) = {})

\* the scenario of C3: a room with a booking of three days shows it on those
\* three days with a free day on either side, next to a room without bookings
\* whose row is all available
C3_Witness ==
    /\ \E i \in DOMAIN initialBookings, j \in 2..(daysToShow - 3) :
        LET b == initialBookings[i]
            row == calendarData[1].row
        IN  /\ b.roomId = "r1"
            /\ DayOf(b.endDate) = DayOf(b.startDate) + 2
            /\ b.startDate % TicksPerDay # 0
            /\ DayOf(b.startDate) = DayOf(row[j].date)
            /\ row[j - 1].status = "available"
            /\ row[j].status # "available"
            /\ row[j + 1].status # "available"
            /\ row[j + 2].status # "available"
            /\ row[j + 3].status = "available"
    /\ \A i \in DOMAIN initialBookings : initialBookings[i].roomId = "r1"
    /\ \A j \in 1..daysToShow : calendarData[2].row[j].status = "available"

\* C4: the status of a covered cell follows booked > maintenance > pending
C4_StatusPriority ==
    \A r \in DOMAIN calendarData : \A j \in DOMAIN calendarData[r].row :
        LET cell == calendarData[r].row[j]
            sts == CoveringStatuses(rooms[r], cell.date)
        IN  sts # {} =>
                cell.status = (IF "booked" \in sts THEN "booked"
                               ELSE IF "maintenance" \in sts THEN "maintenance"
                               ELSE "pending")

\* a day covered by a pending booking listed before a booked one shows booked,
\* and one covered by a pending booking listed before a maintenance one shows
\* maintenance
C4_Witness ==
    \E r \in DOMAIN calendarData : \E j \in DOMAIN calendarData[r].row :
        LET cell == calendarData[r].row[j]
            cov == Covering(rooms[r], cell.date)
        IN  /\ cov = {1, 2}
            /\ initialBookings[1].status = "pending"
            /\ \/ initialBookings[2].status = "booked" /\ cell.status = "booked"
               \/ initialBookings[2].status = "maintenance" /\ cell.status = "maintenance"

----------------------------------------------------------------------------
\* BookingFormDialog: the conflict check

isOverlappingOpen(newStart, newEnd, existingStart, existingEnd) ==
    LET normNewStart == startOfDay(newStart)
        normNewEnd == startOfDay(newEnd)
        normExistingStart == startOfDay(existingStart)
        normExistingEnd == startOfDay(existingEnd)
    IN  normNewStart < normExistingEnd /\ normNewEnd > normExistingStart

isOverlapping(newStart, newEnd, existingStart, existingEnd) ==
    LET normNewStart == startOfDay(newStart)
        normNewEnd == startOfDay(newEnd)
        normExistingStart == startOfDay(existingStart)
        normExistingEnd == startOfDay(existingEnd)
    IN  normNewStart <= normExistingEnd /\ normNewEnd >= normExistingStart

\* the loop of onSubmit without its test on the edited booking's id
detectOverlapNoSkip(data, booking, existing) ==
    LET hits == {i \in DOMAIN existing :
                    isOverlapping(data.startDate, data.endDate,
                                  existing[i].startDate, existing[i].endDate)}
    IN  IF hits = {} THEN NoBooking ELSE existing[Min(hits)]

\* the loop of onSubmit over the fetched bookings: the first booking, other
\* than the one being edited, that overlaps the submitted dates
detectOverlap(data, booking, existing) ==
    LET hits == {i \in DOMAIN existing :
                    /\ ~(booking # NoBooking /\ existing[i].id = booking.id)
                    /\ isOverlapping(data.startDate, data.endDate,
                                     existing[i].startDate, existing[i].endDate)}
    IN  IF hits = {} THEN NoBooking ELSE existing[Min(hits)]

\* firebase Timestamp: a Date split into a whole and a fractional part
TimestampOfDay(d) == [seconds |-> d \div TicksPerDay, nanoseconds |-> 0]
TimestampFromDate(d) == [seconds |-> d \div TicksPerDay, nanoseconds |-> d % TicksPerDay]
TimestampToDate(ts) == ts.seconds * TicksPerDay + ts.nanoseconds

\* the document written for a booking: the id is the document key, the dates
\* are Timestamps
bookingDocOf(b) ==
    [id |-> b.id, roomId |-> b.roomId, guestName |-> b.guestName,
     startDate |-> TimestampFromDate(b.startDate),
     endDate |-> TimestampFromDate(b.endDate),
     status |-> b.status]

convertTimestampToDate(data) ==
    [data EXCEPT !.startDate = TimestampToDate(data.startDate),
                 !.endDate = TimestampToDate(data.endDate)]

\* the stored bookings of every room
getBookingsOfAllRooms(db, roomId) ==
    [i \in DOMAIN db |-> convertTimestampToDate(db[i])]
\* where('roomId', '==', roomId) over the stored bookings, in stored order
getBookingsByRoomId(db, roomId) ==
    LET ofRoom(doc) == doc.roomId = roomId
        docs == SelectSeq(db, ofRoom)
    IN  [i \in DOMAIN docs |-> convertTimestampToDate(docs[i])]

FormValues(lastDay) ==
    {d \in [roomId : RoomIds, guestName : {"guest"},
            startDate : Dates(0, lastDay), endDate : Dates(0, lastDay),
            status : {"booked"}] : d.endDate >= d.startDate}

StoredLists(lastDay) ==
    UNION {{bs \in [1..n -> {b \in BookingInputs({"b1", "b2", "b3"}, 0, lastDay) :
                                b.status = "booked"}] :
                \A i \in 1..n : bs[i].id = <<"b1", "b2", "b3">>[i]} : n \in 0..MaxBookings}

GridIdle ==
    /\ rooms = <<>>
    /\ initialBookings = <<>>
    /\ bookings = <<>>
    /\ currentDisplayDate = 0
    /\ calendarData = <<>>

InitConflict ==
    /\ GridIdle
    /\ FormIdle
    /\ PageIdle
    /\ StoreIdle
    /\ AuthIdle
    /\ candidate \in FormValues(ConflictLastDay)
    /\ \E db \in StoredLists(ConflictLastDay) :
        /\ bookingsDB = [i \in DOMAIN db |-> bookingDocOf(db[i])]
        /\ editing \in {NoBooking} \cup {db[i] : i \in DOMAIN db}
    /\ existingBookingsForRoom = getBookingsByRoomId(bookingsDB, candidate.roomId)
    /\ verdict = Unchecked

\* onSubmit from the return of getBookingsByRoomId to the end of the loop
checkOverlap ==
    /\ verdict = Unchecked
    /\ verdict' = detectOverlap(candidate, editing, existingBookingsForRoom)
    /\ UNCHANGED <<gridVars, candidate, editing, existingBookingsForRoom, formVars, pageVars, authVars, storeVars>>

\* the form is submitted again
resubmit ==
    /\ verdict # Unchecked
    /\ verdict' = Unchecked
    /\ UNCHANGED <<gridVars, candidate, editing, existingBookingsForRoom, formVars, pageVars, authVars, storeVars>>

NextConflict == checkOverlap \/ resubmit

SpecConflict == InitConflict /\ [][NextConflict]_vars

----------------------------------------------------------------------------
\* Properties of the conflict check

\* the stored bookings of the candidate's room, in stored order
StoredOfRoom(roomId) ==
    LET ofRoom(doc) == doc.roomId = roomId
    IN  SelectSeq(bookingsDB, ofRoom)

DayOfTimestamp(ts) == ts.seconds

Conflicting ==
    LET stored == StoredOfRoom(candidate.roomId)
    IN  {i \in DOMAIN stored :
            /\ stored[i].id # editing.id
            /\ DayOf(candidate.startDate) <= DayOfTimestamp(stored[i].endDate)
            /\ DayOf(candidate.endDate) >= DayOfTimestamp(stored[i].startDate)}

\* C5: the check reports a conflict iff some fetched booking (other than the
\* edited one) satisfies candidateStart <= existingEnd and candidateEnd >=
\* existingStart on day-normalized dates; the booking reported is the first
\* such booking in fetched order; otherwise none is reported.
C5_OverlapVerdict ==
    verdict # Unchecked =>
        /\ (verdict = NoBooking) <=> (Conflicting = {})
        /\ Conflicting # {} =>
                verdict.id = StoredOfRoom(candidate.roomId)[Min(Conflicting)].id

\* two fetched bookings overlap the candidate, the first of them only by a
\* shared boundary day, and the first is the one reported
C5_Witness ==
    /\ verdict # Unchecked
    /\ verdict # NoBooking
    /\ Conflicting = {1, 2}
    /\ editing = NoBooking
    /\ verdict = existingBookingsForRoom[1]
    /\ DayOf(candidate.startDate) = DayOf(existingBookingsForRoom[1].endDate)
    /\ DayOf(candidate.startDate) > DayOf(existingBookingsForRoom[1].startDate)
    /\ candidate.startDate % TicksPerDay # 0

----------------------------------------------------------------------------
\* BookingFormDialog hosted by AvailabilityCalendar: the save workflow

BookingIdOf(k) == <<"b1", "b2", "b3", "b4", "b5", "b6", "b7">>[k]

FormDates == {addDays(0, k) : k \in 0..FormLastDay}
FormGuests == {"", "ann"}
FormStatuses == {"booked"}

FormDomain ==
    [roomId : RoomIds, guestName : FormGuests, startDate : FormDates,
     endDate : FormDates, status : FormStatuses]

\* the value of a date field after the selected day has been deselected
NoDate == -1

\* the schema without its refinement on the order of the dates
bookingFormSchemaNoRefine(data) ==
    /\ data.roomId # ""
    /\ data.guestName # ""
    /\ data.startDate # NoDate
    /\ data.endDate # NoDate

\* bookingFormSchema: the object schema, then its refinement
bookingFormSchema(data) ==
    /\ data.roomId # ""
    /\ data.guestName # ""
    /\ data.startDate # NoDate
    /\ data.endDate # NoDate
    /\ data.endDate >= data.startDate

\* the bookings the calendar shows: the stored ones, day-normalized
DisplayedBookings ==
    processedInitialBookings([i \in DOMAIN bookingsDB |-> convertTimestampToDate(bookingsDB[i])])

\* defaultValues / form.reset of the dialog
defaultValues(booking, defaultRoomId, defaultDate) ==
    IF booking # NoBooking
    THEN [roomId |-> booking.roomId, guestName |-> booking.guestName,
          startDate |-> booking.startDate, endDate |-> booking.endDate,
          status |-> booking.status]
    ELSE [roomId |-> defaultRoomId, guestName |-> "",
          startDate |-> defaultDate, endDate |-> defaultDate,
          status |-> "booked"]

\* AvailabilityCalendar.handleDialogClose: the number of onBookingUpdate calls
handleDialogCloseAlwaysUpdates(updated) == signals + 1
handleDialogClose(updated) == IF updated THEN signals + 1 ELSE signals

\* the record written by saveBooking: {...booking, ...dataToSave}
bookingToSave(booking, dataToSave, newId) ==
    [id |-> IF booking # NoBooking THEN booking.id ELSE newId,
     roomId |-> dataToSave.roomId, guestName |-> dataToSave.guestName,
     startDate |-> dataToSave.startDate, endDate |-> dataToSave.endDate,
     status |-> dataToSave.status]

\* updateDoc / addDoc on the collection
writeBooking(db, b) ==
    IF \E i \in DOMAIN db : db[i].id = b.id
    THEN [i \in DOMAIN db |-> IF db[i].id = b.id THEN bookingDocOf(b) ELSE db[i]]
    ELSE Append(db, bookingDocOf(b))

\* saveBooking: the branch taken on the result of updateBooking / addBooking
saveSucceededAlways(outcome) == TRUE
saveSucceeded(outcome) == outcome = "ok"

\* a saveBooking that issues the write again when it has failed
tasksAfterSaveRetrying(t, outcome) ==
    IF outcome = "ok" THEN tasks \ {t}
    ELSE (tasks \ {t}) \cup {[t EXCEPT !.via = "retry"]}
\* saveBooking returns after its toast, whatever the result of the write
tasksAfterSave(t, outcome) == tasks \ {t}

\* the data handleConfirmOverlapAndSave hands to saveBooking
confirmedDataFromForm == form
confirmedData == pendingBookingData

InitForm ==
    /\ rooms = <<"r1", "r2">>
    /\ initialBookings = <<>>
    /\ bookings = <<>>
    /\ currentDisplayDate = 0
    /\ calendarData = <<>>
    /\ ConflictIdle
    /\ FormIdle
    /\ PageIdle
    /\ StoreIdle
    /\ AuthIdle
    /\ \E n \in 0..MaxStored :
        \E bs \in [1..n -> {b \in [id : {BookingIdOf(k) : k \in 1..MaxStored}, roomId : {"r1"},
                                   guestName : {"bob"}, startDate : FormDates,
                                   endDate : FormDates, status : {"pending"}] :
                                b.endDate >= b.startDate}] :
            /\ \A i \in 1..n : bs[i].id = BookingIdOf(i)
            /\ bookingsDB = [i \in 1..n |-> bookingDocOf(bs[i])]

\* AvailabilityCalendar.handleCellClick, then the dialog's effect on isOpen
handleCellClick ==
    /\ ~dialogOpen
    /\ \E b \in {NoBooking} \cup {DisplayedBookings[i] : i \in DOMAIN DisplayedBookings},
          r \in RoomIds, d \in FormDates :
        /\ b # NoBooking => (r = b.roomId /\ d = b.startDate)
        /\ selectedBooking' = b
        /\ form' = defaultValues(b, r, d)
    /\ dialogOpen' = TRUE
    /\ formErrors' = FALSE
    /\ isSubmitting' = FALSE
    /\ showOverlapAlert' = FALSE
    /\ pendingBookingData' = Null
    /\ selectedOverlappingBooking' = Null
    /\ warned' = Null
    /\ UNCHANGED <<gridVars, conflictVars, pageVars, authVars, storeVars, bookingsDB, tasks, lastToast, signals,
                   submits, lastWrite, succeeded>>

\* the admin changes one field of the form
fieldChange ==
    /\ dialogOpen /\ ~showOverlapAlert
    /\ \E f \in FormDomain :
        /\ Cardinality({k \in DOMAIN f : f[k] # form[k]}) = 1
        /\ form' = f
    /\ UNCHANGED <<gridVars, conflictVars, pageVars, authVars, storeVars, bookingsDB, dialogOpen, selectedBooking,
                   formErrors, isSubmitting, showOverlapAlert, pendingBookingData,
                   selectedOverlappingBooking, tasks, lastToast, signals, submits,
                   historyVars>>

\* form.handleSubmit(onSubmit), up to the await of getBookingsByRoomId
onSubmit ==
    /\ dialogOpen /\ ~showOverlapAlert
    /\ ~isSubmitting
    /\ ~(Len(rooms) = 0 /\ selectedBooking = NoBooking)
    /\ IF ~bookingFormSchema(form)
       THEN /\ formErrors' = TRUE
            /\ UNCHANGED <<isSubmitting, tasks, submits>>
       ELSE /\ submits < MaxSubmits
            /\ formErrors' = FALSE
            /\ isSubmitting' = TRUE
            /\ submits' = submits + 1
            /\ tasks' = tasks \cup {[n |-> submits + 1, stage |-> "checking",
                                     data |-> form, booking |-> selectedBooking,
                                     via |-> "direct", submitted |-> form,
                                     existing |-> <<>>]}
    /\ UNCHANGED <<gridVars, conflictVars, pageVars, authVars, storeVars, bookingsDB, dialogOpen, selectedBooking, form,
                   showOverlapAlert, pendingBookingData, selectedOverlappingBooking,
                   lastToast, signals, historyVars>>

\* onSubmit from the return of getBookingsByRoomId (which yields [] when the
\* read fails) to its return or to the await inside saveBooking
onSubmitChecked ==
    \E t \in tasks, readOk \in BOOLEAN :
        /\ t.stage = "checking"
        /\ LET existing == IF readOk THEN getBookingsByRoomId(bookingsDB, t.data.roomId)
                           ELSE <<>>
               hit == detectOverlap(t.data, t.booking, existing)
           IN  IF hit # NoBooking
               THEN /\ pendingBookingData' = t.data
                    /\ selectedOverlappingBooking' = hit
                    /\ showOverlapAlert' = TRUE
                    /\ isSubmitting' = FALSE
                    /\ tasks' = tasks \ {t}
                    /\ warned' = [t EXCEPT !.existing = existing]
               ELSE /\ isSubmitting' = TRUE
                    /\ tasks' = (tasks \ {t}) \cup
                                {[t EXCEPT !.stage = "saving", !.existing = existing]}
                    /\ UNCHANGED <<pendingBookingData, selectedOverlappingBooking,
                                   showOverlapAlert, warned>>
        /\ UNCHANGED <<gridVars, conflictVars, pageVars, authVars, storeVars, bookingsDB, dialogOpen, selectedBooking,
                       form, formErrors, lastToast, signals, submits, lastWrite,
                       succeeded>>

\* 'Proceed Anyway', up to the await inside saveBooking
handleConfirmOverlapAndSave ==
    /\ dialogOpen /\ showOverlapAlert
    /\ ~isSubmitting
    /\ IF pendingBookingData # Null
       THEN /\ isSubmitting' = TRUE
            /\ tasks' = tasks \cup {[n |-> warned.n, stage |-> "saving",
                                     data |-> confirmedData,
                                     booking |-> selectedBooking,
                                     via |-> "confirm", submitted |-> warned.data,
                                     existing |-> <<>>]}
            /\ UNCHANGED <<showOverlapAlert, pendingBookingData,
                           selectedOverlappingBooking>>
       ELSE /\ showOverlapAlert' = FALSE
            /\ pendingBookingData' = Null
            /\ selectedOverlappingBooking' = Null
            /\ UNCHANGED <<isSubmitting, tasks>>
    /\ UNCHANGED <<gridVars, conflictVars, pageVars, authVars, storeVars, bookingsDB, dialogOpen, selectedBooking, form,
                   formErrors, lastToast, signals, submits, historyVars>>

\* saveBooking from the return of updateBooking / addBooking to its end, and
\* the rest of handleConfirmOverlapAndSave when that is the caller
saveBooking ==
    \E t \in tasks, outcome \in {"ok", "fail", "throw"} :
        /\ t.stage = "saving"
        /\ LET b == bookingToSave(t.booking, t.data, BookingIdOf(Len(bookingsDB) + 1))
               exists == \E i \in DOMAIN bookingsDB : bookingsDB[i].id = b.id
           IN  /\ (outcome = "ok" /\ t.booking # NoBooking) => exists
               /\ bookingsDB' = IF outcome = "ok" THEN writeBooking(bookingsDB, b)
                                ELSE bookingsDB
               /\ lastWrite' = [via |-> t.via, outcome |-> outcome]
               /\ succeeded' = IF outcome = "ok" THEN succeeded + 1 ELSE succeeded
               /\ IF outcome # "throw" /\ saveSucceeded(outcome)
                  THEN /\ lastToast' = IF t.booking # NoBooking THEN "Booking Updated"
                                       ELSE "Booking Created"
                       /\ dialogOpen' = FALSE
                       /\ selectedBooking' = NoBooking
                       /\ signals' = handleDialogClose(TRUE)
                  ELSE /\ lastToast' = "Error"
                       /\ UNCHANGED <<dialogOpen, selectedBooking, signals>>
        /\ isSubmitting' = FALSE
        /\ showOverlapAlert' = FALSE
        /\ pendingBookingData' = Null
        /\ selectedOverlappingBooking' =
                IF t.via = "confirm" THEN Null ELSE selectedOverlappingBooking
        /\ tasks' = tasksAfterSave(t, outcome)
        /\ warned' = Null
        /\ UNCHANGED <<gridVars, conflictVars, pageVars, authVars, storeVars, form, formErrors, submits>>

\* AlertDialogCancel onClick
cancelOverlapSaves ==
    /\ dialogOpen /\ showOverlapAlert
    /\ showOverlapAlert' = FALSE
    /\ pendingBookingData' = Null
    /\ selectedOverlappingBooking' = Null
    /\ isSubmitting' = TRUE
    /\ warned' = Null
    /\ tasks' = tasks \cup {[n |-> warned.n, stage |-> "saving",
                             data |-> pendingBookingData, booking |-> selectedBooking,
                             via |-> "confirm", submitted |-> warned.data,
                             existing |-> <<>>]}
    /\ UNCHANGED <<gridVars, conflictVars, pageVars, authVars, storeVars, bookingsDB, dialogOpen, selectedBooking, form,
                   formErrors, lastToast, signals, submits, lastWrite, succeeded>>

cancelOverlap ==
    /\ dialogOpen /\ showOverlapAlert
    /\ showOverlapAlert' = FALSE
    /\ pendingBookingData' = Null
    /\ selectedOverlappingBooking' = Null
    /\ isSubmitting' = FALSE
    /\ warned' = Null
    /\ UNCHANGED <<gridVars, conflictVars, pageVars, authVars, storeVars, bookingsDB, dialogOpen, selectedBooking, form,
                   formErrors, tasks, lastToast, signals, submits, lastWrite, succeeded>>

\* AlertDialog onOpenChange={setShowOverlapAlert}: the alert is dismissed
dismissOverlapAlert ==
    /\ dialogOpen /\ showOverlapAlert
    /\ showOverlapAlert' = FALSE
    /\ UNCHANGED <<gridVars, conflictVars, pageVars, authVars, storeVars, bookingsDB, dialogOpen, selectedBooking, form,
                   formErrors, isSubmitting, pendingBookingData,
                   selectedOverlappingBooking, tasks, lastToast, signals, submits,
                   historyVars>>

\* Dialog onOpenChange / Cancel: onClose(false)
closeDialog ==
    /\ dialogOpen /\ ~showOverlapAlert
    /\ dialogOpen' = FALSE
    /\ selectedBooking' = NoBooking
    /\ signals' = handleDialogClose(FALSE)
    /\ UNCHANGED <<gridVars, conflictVars, pageVars, authVars, storeVars, bookingsDB, form, formErrors, isSubmitting,
                   showOverlapAlert, pendingBookingData, selectedOverlappingBooking,
                   tasks, lastToast, submits, historyVars>>

NextForm ==
    \/ handleCellClick
    \/ fieldChange
    \/ onSubmit
    \/ onSubmitChecked
    \/ handleConfirmOverlapAndSave
    \/ saveBooking
    \/ cancelOverlap
    \/ dismissOverlapAlert
    \/ closeDialog

SpecForm == InitForm /\ [][NextForm]_vars

----------------------------------------------------------------------------
\* Properties of the save workflow

\* the stored bookings of the room, other than the edited one, that share a
\* day with the submitted dates
StoredConflicts(db, data, booking) ==
    {i \in DOMAIN db :
        /\ db[i].roomId = data.roomId
        /\ db[i].id # booking.id
        /\ DayOf(data.startDate) <= DayOfTimestamp(db[i].endDate)
        /\ DayOf(data.endDate) >= DayOfTimestamp(db[i].startDate)}

FetchedConflicts(existing, data, booking) ==
    {i \in DOMAIN existing :
        /\ existing[i].id # booking.id
        /\ DayOf(data.startDate) <= DayOf(existing[i].endDate)
        /\ DayOf(data.endDate) >= DayOf(existing[i].startDate)}

\* the submission went on to saveBooking without a prompt
WentToSave(t) ==
    \E u \in tasks' : u.n = t.n /\ u.stage = "saving" /\ u.via = "direct"

C6_Step ==
    \A t \in tasks :
        (t.stage = "checking" /\ t \notin tasks' /\ t.booking # NoBooking) =>
            /\ ~WentToSave(t) =>
                    /\ showOverlapAlert'
                    /\ selectedOverlappingBooking'.id # t.booking.id
            /\ StoredConflicts(bookingsDB, t.data, t.booking) = {} =>
                    /\ WentToSave(t)
                    /\ showOverlapAlert' = showOverlapAlert
                    /\ pendingBookingData' = pendingBookingData

\* C6: when an edit is submitted, the edited booking itself is never reported
\* as the conflict, and if no other stored booking of the room shares a day
\* with the submitted dates the submission goes on to the write with no prompt.
C6_EditSkipsSelf == [][C6_Step]_vars

\* an edit re-submitted with its room and dates unchanged was fetched among the
\* room's bookings and is being saved without a prompt
C6_Witness ==
    \E t \in tasks :
        /\ t.stage = "saving" /\ t.via = "direct"
        /\ t.booking # NoBooking
        /\ t.data.roomId = t.booking.roomId
        /\ t.data.startDate = t.booking.startDate
        /\ t.data.endDate = t.booking.endDate
        /\ \E i \in DOMAIN t.existing : t.existing[i].id = t.booking.id
        /\ ~showOverlapAlert

C7_NoUnconfirmedWrite ==
    \A t \in tasks :
        (t.stage = "saving" /\ t.via = "direct") =>
            FetchedConflicts(t.existing, t.data, t.booking) = {}

C7_CancelStep ==
    (/\ dialogOpen /\ dialogOpen'
     /\ showOverlapAlert /\ ~showOverlapAlert'
     /\ pendingBookingData # Null /\ pendingBookingData' = Null
     /\ tasks \subseteq tasks') =>
        /\ tasks' = tasks
        /\ bookingsDB' = bookingsDB
        /\ isSubmitting' = FALSE
        /\ selectedOverlappingBooking' = Null
        /\ signals' = signals

\* C7: a write is outstanding without confirmation only if the conflict check
\* of its submission found no overlap among the fetched bookings; cancelling
\* the overlap alert issues no write, leaves the store unchanged and returns
\* the dialog to idle.
C7_ConfirmBeforeWrite == [][C7_NoUnconfirmedWrite' /\ C7_CancelStep]_vars

\* the alert was raised for a submission and cancelled: idle, nothing written
C7_Witness ==
    /\ dialogOpen
    /\ submits = 1
    /\ tasks = {}
    /\ lastWrite = Null
    /\ ~isSubmitting /\ ~showOverlapAlert
    /\ pendingBookingData = Null
    /\ selectedOverlappingBooking = Null
    /\ StoredConflicts(bookingsDB, form, selectedBooking) # {}

DocFields(doc) ==
    [roomId |-> doc.roomId, guestName |-> doc.guestName,
     startDate |-> TimestampToDate(doc.startDate),
     endDate |-> TimestampToDate(doc.endDate), status |-> doc.status]

C8_Step ==
    \A t \in tasks :
        (/\ t.stage = "saving" /\ t.via = "confirm"
         /\ t \notin tasks' /\ succeeded' = succeeded + 1) =>
            \E i \in DOMAIN bookingsDB' :
                /\ DocFields(bookingsDB'[i]) = t.submitted
                /\ IF t.booking # NoBooking
                   THEN /\ bookingsDB'[i].id = t.booking.id
                        /\ Len(bookingsDB') = Len(bookingsDB)
                   ELSE /\ i = Len(bookingsDB) + 1
                        /\ Len(bookingsDB') = Len(bookingsDB) + 1
                        /\ \A j \in DOMAIN bookingsDB : bookingsDB[j].id # bookingsDB'[i].id
                /\ \A j \in DOMAIN bookingsDB : j # i => bookingsDB'[j] = bookingsDB[j]

\* C8: a write confirmed after an overlap warning stores exactly the room,
\* guest name, dates and status that were submitted before the warning, and
\* changes no other stored booking.
C8_ConfirmWritesCandidate == [][C8_Step]_vars

\* a confirmed write succeeded and the store holds two bookings of one room
\* that share a day
C8_Witness ==
    /\ lastWrite # Null
    /\ lastWrite.via = "confirm" /\ lastWrite.outcome = "ok"
    /\ \E i, j \in DOMAIN bookingsDB :
        /\ i < j
        /\ bookingsDB[i].roomId = bookingsDB[j].roomId
        /\ DayOfTimestamp(bookingsDB[i].startDate) <= DayOfTimestamp(bookingsDB[j].endDate)
        /\ DayOfTimestamp(bookingsDB[j].startDate) <= DayOfTimestamp(bookingsDB[i].endDate)

C9_Step ==
    \A t \in tasks :
        (t.stage = "saving" /\ t \notin tasks' /\ succeeded' = succeeded) =>
            /\ lastToast' = "Error"
            /\ dialogOpen' = dialogOpen
            /\ selectedBooking' = selectedBooking
            /\ form' = form
            /\ bookingsDB' = bookingsDB
            /\ signals' = signals
            /\ isSubmitting' = FALSE
            /\ showOverlapAlert' = FALSE

\* C9: when a write fails (false, null or an exception), on the direct and on
\* the confirmed path alike, an error toast is shown, the dialog is neither
\* closed nor reset, nothing is stored or signalled, and the form can be
\* submitted again.
C9_FailedWriteKeepsForm == [][C9_Step]_vars

\* a confirmed write failed: the dialog is open on the entered values and the
\* form can be submitted again
C9_Witness ==
    /\ lastWrite # Null
    /\ lastWrite.via = "confirm" /\ lastWrite.outcome \in {"fail", "throw"}
    /\ lastToast = "Error"
    /\ dialogOpen /\ ~showOverlapAlert /\ ~isSubmitting
    /\ tasks = {}
    /\ bookingFormSchema(form)
    /\ submits < MaxSubmits
    /\ StoredConflicts(bookingsDB, form, selectedBooking) # {}

\* C10: onBookingUpdate has been called once for every write that succeeded,
\* and for nothing else.
C10_SignalIffWriteSucceeded == signals = succeeded

\* one write succeeded and was signalled, a later one failed and the dialog was
\* then closed by the admin, with no further signal
C10_Witness ==
    /\ succeeded = 1 /\ signals = 1
    /\ submits = 2
    /\ lastWrite.outcome = "fail"
    /\ ~dialogOpen
    /\ tasks = {}

----------------------------------------------------------------------------
\* HomePage: loading of the locations and of the selected location's data

\* the store: the two seeded locations, and a room in each
LocationsDB ==
    <<[id |-> "locA", name |-> "Granada, Spain"],
      [id |-> "locB", name |-> "Second Location (Coming Soon)"]>>

RoomsDB ==
    <<[id |-> "r1", name |-> "Sunrise Suite", locationId |-> "locA"],
      [id |-> "r2", name |-> "Annex", locationId |-> "locB"]>>

\* Firestore's limit on the operands of an 'in' query
InQueryLimit == 30

StoredBooking(id, roomId) ==
    bookingDocOf([id |-> id, roomId |-> roomId, guestName |-> "guest",
                  startDate |-> 0, endDate |-> addDays(0, 1), status |-> "booked"])

getLocations(ok) == IF ok THEN locationsDB ELSE <<>>

\* a read whose failure goes unnoticed hands over what it had
getRoomsIgnoringFailure(locationId, ok) ==
    LET ofLocation(room) == room.locationId = locationId
    IN  SelectSeq(roomsDB, ofLocation)

\* a failed read is caught, logged and answered with []
getRooms(locationId, ok) ==
    LET ofLocation(room) == room.locationId = locationId
    IN  IF ok THEN SelectSeq(roomsDB, ofLocation) ELSE <<>>

getBookingsByLocation(db, locationId, ok) ==
    LET locationRooms == getRooms(locationId, ok)
        firstRooms == SubSeq(locationRooms, 1,
                             IF Len(locationRooms) > InQueryLimit THEN InQueryLimit
                             ELSE Len(locationRooms))
        roomIds == {firstRooms[i].id : i \in DOMAIN firstRooms}
        inRooms(doc) == doc.roomId \in roomIds
        docs == SelectSeq(db, inRooms)
    IN  IF ~ok \/ Len(locationRooms) = 0 THEN <<>>
        ELSE [i \in DOMAIN docs |-> convertTimestampToDate(docs[i])]

\* the continuation stores only the rooms it received
fetchedRoomsOnly(t, roomsOk, bookingsOk) ==
    [rooms |-> getRooms(t.key, roomsOk),
     bookings |-> allBookingsForSelectedLocation,
     shown |-> [shownFor EXCEPT !.rooms = t.key, !.roomsFetch = t.id, !.by = t.kind,
                                !.roomsOk = roomsOk],
     errors |-> (IF roomsOk THEN 0 ELSE 1) + (IF bookingsOk THEN 0 ELSE 1)]

\* const [fetchedRooms, fetchedBookings] = await Promise.all([...]) and the
\* two setState calls that follow it in the same continuation, with the
\* history of where the lists came from
fetchedRoomsAndBookings(t, roomsOk, bookingsOk) ==
    [rooms |-> getRooms(t.key, roomsOk),
     bookings |-> getBookingsByLocation(bookingsDB, t.key, bookingsOk),
     shown |-> [rooms |-> t.key, bookings |-> t.key,
                roomsFetch |-> t.id, bookingsFetch |-> t.id, by |-> t.kind,
                roomsOk |-> roomsOk, bookingsOk |-> bookingsOk,
                locationsOk |-> shownFor.locationsOk],
     errors |-> (IF roomsOk THEN 0 ELSE 1) + (IF bookingsOk THEN 0 ELSE 1)]

CurDeps == <<selectedLocationId, isSeeding, isLoadingLocations>>

\* every effect of the last commit has run
EffectsFlushed == effectDeps = CurDeps

overallLoading == isLoadingLocations /\ Len(allLocations) = 0

\* the AvailabilityCalendar is rendered
CalendarDisplayed ==
    /\ ~overallLoading
    /\ ~isLoadingLocationData
    /\ selectedLocationId # ""

\* the documents carry generated ids, so either location can come first
InitSync ==
    /\ locationsDB \in {LocationsDB, <<LocationsDB[2], LocationsDB[1]>>}
    /\ roomsDB = RoomsDB
    /\ created = [locations |-> 2, rooms |-> 2, bookings |-> 2]
    /\ NoCalls
    /\ AuthIdle
    /\ GridIdle
    /\ ConflictIdle
    /\ FormIdle
    /\ bookingsDB = <<StoredBooking("b1", "r1"), StoredBooking("b2", "r2")>>
    /\ allLocations = <<>>
    /\ selectedLocationId = ""
    /\ allRoomsForSelectedLocation = <<>>
    /\ allBookingsForSelectedLocation = <<>>
    /\ isLoadingLocations = TRUE
    /\ isLoadingLocationData = FALSE
    /\ isSeeding = TRUE
    /\ effectDeps = <<"", TRUE, TRUE>>
    /\ loads = {[id |-> 1, kind |-> "seed", key |-> ""]}
    /\ issued = 1
    /\ switches = 0
    /\ refreshes = 0
    /\ shownFor = NothingShown
    /\ consoleErrors = 0

\* initialLoad from the return of seedInitialData to the await of getLocations
initialLoadSeeded ==
    \E t \in loads :
        /\ t.kind = "seed"
        /\ EffectsFlushed
        /\ isSeeding' = FALSE
        /\ loads' = (loads \ {t}) \cup {[t EXCEPT !.kind = "initLocations"]}
        /\ UNCHANGED <<gridVars, conflictVars, storeVars, authVars, formVars, allLocations, selectedLocationId,
                       allRoomsForSelectedLocation, allBookingsForSelectedLocation,
                       isLoadingLocations, isLoadingLocationData, effectDeps, issued,
                       switches, refreshes, shownFor, consoleErrors>>

\* initialLoad from the return of getLocations to its end
initialLoadLocations ==
    \E t \in loads, ok \in BOOLEAN :
        /\ t.kind = "initLocations"
        /\ EffectsFlushed
        /\ LET fetchedLocations == getLocations(ok)
           IN  /\ allLocations' = fetchedLocations
               /\ selectedLocationId' = IF Len(fetchedLocations) > 0
                                        THEN fetchedLocations[1].id ELSE ""
        /\ shownFor' = [shownFor EXCEPT !.locationsOk = ok]
        /\ consoleErrors' = consoleErrors + (IF ok THEN 0 ELSE 1)
        /\ isLoadingLocations' = FALSE
        /\ loads' = loads \ {t}
        /\ UNCHANGED <<gridVars, conflictVars, storeVars, authVars, formVars, allRoomsForSelectedLocation,
                       allBookingsForSelectedLocation, isLoadingLocationData, isSeeding,
                       effectDeps, issued, switches, refreshes>>

\* a condition that looks at the selection only
fetchAllowedWhileLoading == selectedLocationId # ""
\* the condition under which the effect fetches
fetchAllowed == selectedLocationId # "" /\ ~isSeeding /\ ~isLoadingLocations

\* the effect on [selectedLocationId, isSeeding, isLoadingLocations], up to the
\* await of Promise.all
fetchLocationSpecificData ==
    /\ ~EffectsFlushed
    /\ effectDeps' = CurDeps
    /\ IF fetchAllowed
       THEN /\ isLoadingLocationData' = TRUE
            /\ loads' = loads \cup {[id |-> issued + 1, kind |-> "fetch",
                                     key |-> selectedLocationId]}
            /\ issued' = issued + 1
            /\ UNCHANGED <<allRoomsForSelectedLocation, allBookingsForSelectedLocation,
                           shownFor>>
       ELSE IF selectedLocationId = "" /\ ~isSeeding /\ ~isLoadingLocations
       THEN /\ allRoomsForSelectedLocation' = <<>>
            /\ allBookingsForSelectedLocation' = <<>>
            /\ shownFor' = [NothingShown EXCEPT !.locationsOk = shownFor.locationsOk]
            /\ isLoadingLocationData' = FALSE
            /\ UNCHANGED <<loads, issued>>
       ELSE UNCHANGED <<allRoomsForSelectedLocation, allBookingsForSelectedLocation,
                        shownFor, isLoadingLocationData, loads, issued>>
    /\ UNCHANGED <<gridVars, conflictVars, storeVars, authVars, formVars, allLocations, selectedLocationId,
                   isLoadingLocations, isSeeding, switches, refreshes, consoleErrors>>

\* the effect has no cleanup and its continuation compares nothing with the
\* current selection: the result is stored whatever is selected by now
\* fetchLocationSpecificData from the return of Promise.all to its end
fetchLocationSpecificDataDone ==
    \E t \in loads, roomsOk \in BOOLEAN, bookingsOk \in BOOLEAN :
        /\ t.kind = "fetch"
        /\ EffectsFlushed
        /\ LET fetched == fetchedRoomsAndBookings(t, roomsOk, bookingsOk)
           IN  /\ allRoomsForSelectedLocation' = fetched.rooms
               /\ allBookingsForSelectedLocation' = fetched.bookings
               /\ shownFor' = fetched.shown
               /\ consoleErrors' = consoleErrors + fetched.errors
        /\ isLoadingLocationData' = FALSE
        /\ loads' = loads \ {t}
        /\ UNCHANGED <<gridVars, conflictVars, storeVars, authVars, formVars, allLocations, selectedLocationId,
                       isLoadingLocations, isSeeding, effectDeps, issued, switches,
                       refreshes>>

\* the Select's onValueChange
handleLocationChange ==
    /\ EffectsFlushed
    /\ ~overallLoading
    /\ switches < MaxSwitches
    /\ \E i \in DOMAIN allLocations :
        /\ allLocations[i].id # selectedLocationId
        /\ selectedLocationId' = allLocations[i].id
    /\ switches' = switches + 1
    /\ UNCHANGED <<gridVars, conflictVars, storeVars, authVars, formVars, allLocations,
                   allRoomsForSelectedLocation, allBookingsForSelectedLocation,
                   isLoadingLocations, isLoadingLocationData, isSeeding, effectDeps,
                   loads, issued, refreshes, shownFor, consoleErrors>>

\* a booking of a displayed room has been written and the calendar calls
\* onBookingUpdate: handleDataUpdate up to the await of getLocations
handleDataUpdate ==
    /\ EffectsFlushed
    /\ CalendarDisplayed
    /\ refreshes < MaxRefreshes
    /\ \E i \in DOMAIN allRoomsForSelectedLocation :
        bookingsDB' = Append(bookingsDB,
                             StoredBooking(BookingIdOf(Len(bookingsDB) + 1),
                                           allRoomsForSelectedLocation[i].id))
    /\ refreshes' = refreshes + 1
    /\ isLoadingLocations' = TRUE
    /\ isLoadingLocationData' = (IF selectedLocationId # "" THEN TRUE
                                 ELSE isLoadingLocationData)
    /\ loads' = loads \cup {[id |-> issued + 1, kind |-> "updateLocations",
                             key |-> selectedLocationId]}
    /\ issued' = issued + 1
    /\ UNCHANGED <<gridVars, conflictVars, storeVars, authVars, dialogVars, tasks, lastToast, signals, submits,
                   historyVars, allLocations, selectedLocationId,
                   allRoomsForSelectedLocation, allBookingsForSelectedLocation, isSeeding,
                   effectDeps, switches, shownFor, consoleErrors>>

\* handleDataUpdate from the return of getLocations to the await of Promise.all,
\* or to its end when no location is left; t.key is the selectedLocationId of
\* the render that created the callback
handleDataUpdateLocations ==
    \E t \in loads, ok \in BOOLEAN :
        /\ t.kind = "updateLocations"
        /\ EffectsFlushed
        /\ LET fetchedLocations == getLocations(ok)
               found == \E i \in DOMAIN fetchedLocations : fetchedLocations[i].id = t.key
               newSelectedIdToSet ==
                    IF Len(fetchedLocations) > 0
                    THEN IF t.key = "" \/ ~found THEN fetchedLocations[1].id ELSE t.key
                    ELSE ""
           IN  /\ allLocations' = fetchedLocations
               /\ selectedLocationId' = newSelectedIdToSet
               /\ IF newSelectedIdToSet # ""
                  THEN /\ loads' = (loads \ {t}) \cup
                                   {[t EXCEPT !.kind = "updateData",
                                              !.key = newSelectedIdToSet]}
                       /\ shownFor' = [shownFor EXCEPT !.locationsOk = ok]
                       /\ UNCHANGED <<allRoomsForSelectedLocation,
                                      allBookingsForSelectedLocation,
                                      isLoadingLocations, isLoadingLocationData>>
                  ELSE /\ allRoomsForSelectedLocation' = <<>>
                       /\ allBookingsForSelectedLocation' = <<>>
                       /\ shownFor' = [NothingShown EXCEPT !.locationsOk = ok]
                       /\ isLoadingLocations' = FALSE
                       /\ isLoadingLocationData' = FALSE
                       /\ loads' = loads \ {t}
        /\ consoleErrors' = consoleErrors + (IF ok THEN 0 ELSE 1)
        /\ UNCHANGED <<gridVars, conflictVars, storeVars, authVars, formVars, isSeeding, effectDeps, issued,
                       switches, refreshes>>

\* a refresh whose end leaves the loading flags as they are
handleDataUpdateDoneFlagsLeft ==
    \E t \in loads, roomsOk \in BOOLEAN, bookingsOk \in BOOLEAN :
        /\ t.kind = "updateData"
        /\ EffectsFlushed
        /\ LET fetched == fetchedRoomsAndBookings(t, roomsOk, bookingsOk)
           IN  /\ allRoomsForSelectedLocation' = fetched.rooms
               /\ allBookingsForSelectedLocation' = fetched.bookings
               /\ shownFor' = fetched.shown
               /\ consoleErrors' = consoleErrors + fetched.errors
        /\ loads' = loads \ {t}
        /\ UNCHANGED <<gridVars, conflictVars, storeVars, authVars, formVars, allLocations, selectedLocationId,
                       isLoadingLocations, isLoadingLocationData,
                       isSeeding, effectDeps, issued, switches, refreshes>>

\* handleDataUpdate from the return of Promise.all to its end
handleDataUpdateDone ==
    \E t \in loads, roomsOk \in BOOLEAN, bookingsOk \in BOOLEAN :
        /\ t.kind = "updateData"
        /\ EffectsFlushed
        /\ LET fetched == fetchedRoomsAndBookings(t, roomsOk, bookingsOk)
           IN  /\ allRoomsForSelectedLocation' = fetched.rooms
               /\ allBookingsForSelectedLocation' = fetched.bookings
               /\ shownFor' = fetched.shown
               /\ consoleErrors' = consoleErrors + fetched.errors
        /\ isLoadingLocations' = FALSE
        /\ isLoadingLocationData' = FALSE
        /\ loads' = loads \ {t}
        /\ UNCHANGED <<gridVars, conflictVars, storeVars, authVars, formVars, allLocations, selectedLocationId,
                       isSeeding, effectDeps, issued, switches, refreshes>>

NextSync ==
    \/ initialLoadSeeded
    \/ initialLoadLocations
    \/ fetchLocationSpecificData
    \/ fetchLocationSpecificDataDone
    \/ handleLocationChange
    \/ handleDataUpdate
    \/ handleDataUpdateLocations
    \/ handleDataUpdateDone

SpecSync == InitSync /\ [][NextSync]_vars

----------------------------------------------------------------------------
\* Properties of the home page

\* no data-access call is outstanding and every effect has run
Quiescent == loads = {} /\ EffectsFlushed

ShowsSelected ==
    /\ shownFor.rooms = selectedLocationId
    /\ shownFor.bookings = selectedLocationId

\* C1: once every outstanding fetch has resolved, the displayed rooms and
\* bookings are those fetched for the selected location: the late result of a
\* load issued for the previous selection has not replaced them.
C1_LateLoadDiscarded ==
    (Quiescent /\ selectedLocationId # "") => ShowsSelected

\* C2: whenever the calendar is displayed (a location is selected, no
\* location-data load is flagged and the effects of the last commit have
\* run), the displayed rooms and bookings come from a fetch issued for the
\* selected location.
C2_DisplayedDataIsForSelection ==
    (CalendarDisplayed /\ EffectsFlushed) => ShowsSelected

----------------------------------------------------------------------------
\* BookingFormDialog: validation of the submitted values

\* what the fields of an open dialog can hold: no room chosen, an empty guest
\* name, a deselected date, an end before the start
SubmittableForms ==
    [roomId : RoomIds \cup {""}, guestName : FormGuests,
     startDate : FormDates \cup {NoDate}, endDate : FormDates \cup {NoDate},
     status : FormStatuses]

\* the dialog is open for a new booking on an empty store and the admin has
\* edited its fields
InitValidate ==
    /\ rooms = <<"r1", "r2">>
    /\ initialBookings = <<>>
    /\ bookings = <<>>
    /\ currentDisplayDate = 0
    /\ calendarData = <<>>
    /\ ConflictIdle
    /\ PageIdle
    /\ StoreIdle
    /\ AuthIdle
    /\ bookingsDB = <<>>
    /\ dialogOpen = TRUE
    /\ selectedBooking = NoBooking
    /\ form \in SubmittableForms
    /\ formErrors = FALSE
    /\ isSubmitting = FALSE
    /\ showOverlapAlert = FALSE
    /\ pendingBookingData = Null
    /\ selectedOverlappingBooking = Null
    /\ tasks = {}
    /\ lastToast = "none"
    /\ signals = 0
    /\ submits = 0
    /\ warned = Null
    /\ lastWrite = Null
    /\ succeeded = 0

SpecValidate == InitValidate /\ [][NextForm]_vars

\* the submitted values name a room and a guest, carry both dates, and do not
\* end before they start
WellFormed(data) ==
    /\ data.roomId \in RoomIds
    /\ data.guestName # ""
    /\ data.startDate # NoDate
    /\ data.endDate # NoDate
    /\ ~(data.endDate < data.startDate)

\* every invocation suspended on the data layer carries well-formed values, a
\* step taken while the form is malformed starts no invocation (those already
\* suspended may go on), and the stored dates are ordered
C11_Step ==
    /\ \A t \in tasks' \ tasks : WellFormed(t.data)
    /\ (~WellFormed(form) /\ ~showOverlapAlert) =>
            /\ {t.n : t \in tasks'} \subseteq {t.n : t \in tasks}
            /\ submits' = submits
    /\ \A i \in DOMAIN bookingsDB' :
            TimestampToDate(bookingsDB'[i].endDate) >= TimestampToDate(bookingsDB'[i].startDate)

\* C11: a submission with an empty guest name, no room, a missing date or an
\* end date before the start date starts no data-layer call (neither the read
\* of the existing bookings nor a write), and every stored booking has
\* endDate >= startDate.
C11_InvalidNeverReachesData == [][C11_Step]_vars

\* a form whose only defect is an end date before its start date has been
\* submitted and rejected: errors are shown and nothing was read or written
C11_Witness ==
    /\ formErrors
    /\ dialogOpen
    /\ form.roomId # "" /\ form.guestName # ""
    /\ form.startDate # NoDate /\ form.endDate # NoDate
    /\ form.endDate < form.startDate
    /\ submits = 0 /\ tasks = {} /\ bookingsDB = <<>>

\* a step in which initialLoad or handleDataUpdate receives the location list
LocationsFetched ==
    \E t \in loads : t.kind \in {"initLocations", "updateLocations"} /\ t \notin loads'

\* the selection the rule asks for: the current one if it is still listed, else
\* the location named 'Granada, Spain', else the first one, else none
SelectionRule(fetchedLocations, current) ==
    LET ids == {fetchedLocations[i].id : i \in DOMAIN fetchedLocations}
        named == {i \in DOMAIN fetchedLocations :
                    fetchedLocations[i].name = "Granada, Spain"}
    IN  IF Len(fetchedLocations) = 0 THEN ""
        ELSE IF current \in ids THEN current
        ELSE IF named # {} THEN fetchedLocations[Min(named)].id
        ELSE fetchedLocations[1].id

C12_Step ==
    LocationsFetched =>
        /\ selectedLocationId' = SelectionRule(allLocations', selectedLocationId)
        /\ Len(allLocations') = 0 =>
                /\ allRoomsForSelectedLocation' = <<>>
                /\ allBookingsForSelectedLocation' = <<>>

\* C12: after a location list fetch the current selection is kept if it is
\* still in the fetched list; otherwise the location named 'Granada, Spain' is
\* selected if present; otherwise the first location in returned order; with
\* an empty list the selection is undefined and the room and booking lists
\* are empty.
C12_SelectionRule == [][C12_Step]_vars

\* C13: the room list and the booking list the calendar is given always come
\* from the same fetch: a refresh never leaves the rooms of its fetch next to
\* the bookings of an earlier one, or the reverse.
C13_ListsReplacedTogether ==
    /\ shownFor.roomsFetch = shownFor.bookingsFetch
    /\ shownFor.rooms = shownFor.bookings

\* a data-changed refresh has completed and the calendar shows its rooms and
\* its bookings, the booking written before the refresh among them
C13_Witness ==
    /\ CalendarDisplayed
    /\ shownFor.by = "updateData"
    /\ Len(allRoomsForSelectedLocation) > 0
    /\ \E i \in DOMAIN allBookingsForSelectedLocation :
            allBookingsForSelectedLocation[i].id = BookingIdOf(Len(bookingsDB))
    /\ Len(bookingsDB) = 3

\* a step in which the fetch effect or handleDataUpdate receives the rooms and
\* the bookings
ListsFetched ==
    \E t \in loads : t.kind \in {"fetch", "updateData"} /\ t \notin loads'

C14_Step ==
    /\ (LocationsFetched /\ ~shownFor'.locationsOk) =>
            /\ allLocations' = <<>>
            /\ selectedLocationId' = ""
            /\ allRoomsForSelectedLocation' = <<>>
            /\ allBookingsForSelectedLocation' = <<>>
            /\ consoleErrors' > consoleErrors
    /\ (ListsFetched /\ ~shownFor'.roomsOk) =>
            /\ allRoomsForSelectedLocation' = <<>>
            /\ consoleErrors' > consoleErrors
    /\ (ListsFetched /\ ~shownFor'.bookingsOk) =>
            /\ allBookingsForSelectedLocation' = <<>>
            /\ consoleErrors' > consoleErrors
    /\ ListsFetched => shownFor'.roomsFetch = shownFor'.bookingsFetch

----------------------------------------------------------------------------
\* The data layer: seeding, adding and deleting on the store

LocationIdOf(k) == <<"locA", "locB", "locC", "locD", "locE", "locF">>[k]
RoomIdOf(k) == <<"r1", "r2", "r3", "r4", "r5", "r6", "r7", "r8", "r9">>[k]

\* new Date() at the time of seeding: a day with a time of day
Today == addDays(0, 2) + 1

\* the documents seedInitialData puts in its batch; the ids are generated
seedLocations(n) ==
    <<[id |-> LocationIdOf(n + 1), name |-> "Granada, Spain"],
      [id |-> LocationIdOf(n + 2), name |-> "Second Location (Coming Soon)"]>>

seedRooms(nLocations, n) ==
    <<[id |-> RoomIdOf(n + 1), name |-> "Sunrise Suite",
       locationId |-> LocationIdOf(nLocations + 1)],
      [id |-> RoomIdOf(n + 2), name |-> "Ocean View Deluxe",
       locationId |-> LocationIdOf(nLocations + 1)],
      [id |-> RoomIdOf(n + 3), name |-> "Garden Retreat",
       locationId |-> LocationIdOf(nLocations + 1)]>>

seedBookings(nRooms, n) ==
    <<bookingDocOf([id |-> BookingIdOf(n + 1), roomId |-> RoomIdOf(nRooms + 1),
                    guestName |-> "Alice Wonderland",
                    startDate |-> addDays(Today, -2), endDate |-> addDays(Today, 1),
                    status |-> "booked"]),
      bookingDocOf([id |-> BookingIdOf(n + 2), roomId |-> RoomIdOf(nRooms + 2),
                    guestName |-> "Bob The Builder",
                    startDate |-> Today, endDate |-> addDays(Today, 3),
                    status |-> "pending"])>>

IdsOf(col) == {col[i].id : i \in DOMAIN col}

\* the guards of the deletes
hasRooms(locationId) == \E i \in DOMAIN roomsDB : roomsDB[i].locationId = locationId
\* a guard that finds nothing
hasNoDependents(id) == FALSE
hasBookings(roomId) == \E i \in DOMAIN bookingsDB : bookingsDB[i].roomId = roomId

\* deleteDoc: the collection without the document of that id
deleteDoc(col, id) ==
    LET others(d) == d.id # id
    IN  SelectSeq(col, others)

InitStore ==
    /\ GridIdle
    /\ ConflictIdle
    /\ FormIdle
    /\ PageIdle
    /\ StoreIdle
    /\ AuthIdle
    /\ bookingsDB = <<>>

\* a check that always asks for the seed
snapshotAlwaysEmpty(col) == TRUE
\* locationSnapshot.empty
snapshotEmpty(col) == Len(col) = 0

\* seedInitialData up to the await of batch.commit (or to its return)
seedInitialData ==
    /\ started.seeds < MaxSeeds
    /\ started' = [started EXCEPT !.seeds = @ + 1]
    /\ \E readOk \in BOOLEAN :
        IF readOk /\ snapshotEmpty(locationsDB)
        THEN /\ ops' = ops \cup {[op |-> "seed", id |-> "", n |-> started.seeds + 1]}
             /\ UNCHANGED lastOp
        ELSE /\ lastOp' = [op |-> "seed", id |-> "",
                           result |-> IF readOk THEN "skipped" ELSE "failed"]
             /\ UNCHANGED ops
    /\ UNCHANGED <<gridVars, conflictVars, formVars, pageVars, authVars, locationsDB, roomsDB,
                   created, refused>>

\* seedInitialData from the return of batch.commit to its end
seedInitialDataCommitted ==
    \E t \in ops, ok \in BOOLEAN :
        /\ t.op = "seed"
        /\ IF ok
           THEN /\ locationsDB' = locationsDB \o seedLocations(created.locations)
                /\ roomsDB' = roomsDB \o seedRooms(created.locations, created.rooms)
                /\ bookingsDB' = bookingsDB \o seedBookings(created.rooms, created.bookings)
                /\ created' = [locations |-> created.locations + 2,
                               rooms |-> created.rooms + 3,
                               bookings |-> created.bookings + 2]
           ELSE UNCHANGED <<locationsDB, roomsDB, bookingsDB, created>>
        /\ lastOp' = [op |-> "seed", id |-> "", result |-> IF ok THEN "seeded" ELSE "failed"]
        /\ ops' = ops \ {t}
        /\ UNCHANGED <<gridVars, conflictVars, pageVars, authVars, dialogVars, tasks, lastToast,
                       signals, submits, historyVars, started, refused>>

\* deleteLocation up to the await of deleteDoc (or to its return)
deleteLocation ==
    \E k \in 1..created.locations, readOk \in BOOLEAN :
        LET locationId == LocationIdOf(k)
        IN  /\ started.others < MaxStoreOps
            /\ started' = [started EXCEPT !.others = @ + 1]
            /\ IF readOk /\ ~hasRooms(locationId)
               THEN /\ ops' = ops \cup {[op |-> "deleteLocation", id |-> locationId,
                                         n |-> started.others + 1]}
                    /\ UNCHANGED <<lastOp, refused>>
               ELSE /\ lastOp' = [op |-> "deleteLocation", id |-> locationId,
                                  result |-> FALSE]
                    /\ refused' = IF readOk
                                  THEN refused \cup {[op |-> "deleteLocation",
                                                      id |-> locationId]}
                                  ELSE refused
                    /\ UNCHANGED ops
            /\ UNCHANGED <<gridVars, conflictVars, formVars, pageVars, authVars, locationsDB, roomsDB,
                           created>>

\* deleteRoom up to the await of deleteDoc (or to its return)
deleteRoom ==
    \E k \in 1..created.rooms, readOk \in BOOLEAN :
        LET roomId == RoomIdOf(k)
        IN  /\ started.others < MaxStoreOps
            /\ started' = [started EXCEPT !.others = @ + 1]
            /\ IF readOk /\ ~hasBookings(roomId)
               THEN /\ ops' = ops \cup {[op |-> "deleteRoom", id |-> roomId,
                                         n |-> started.others + 1]}
                    /\ UNCHANGED <<lastOp, refused>>
               ELSE /\ lastOp' = [op |-> "deleteRoom", id |-> roomId, result |-> FALSE]
                    /\ refused' = IF readOk
                                  THEN refused \cup {[op |-> "deleteRoom", id |-> roomId]}
                                  ELSE refused
                    /\ UNCHANGED ops
            /\ UNCHANGED <<gridVars, conflictVars, formVars, pageVars, authVars, locationsDB, roomsDB,
                           created>>

\* deleteLocation / deleteRoom from the return of deleteDoc to its end
deleteCommitted ==
    \E t \in ops, ok \in BOOLEAN :
        /\ t.op \in {"deleteLocation", "deleteRoom"}
        /\ locationsDB' = IF ok /\ t.op = "deleteLocation"
                          THEN deleteDoc(locationsDB, t.id) ELSE locationsDB
        /\ roomsDB' = IF ok /\ t.op = "deleteRoom"
                      THEN deleteDoc(roomsDB, t.id) ELSE roomsDB
        /\ lastOp' = [op |-> t.op, id |-> t.id, result |-> ok]
        /\ ops' = ops \ {t}
        /\ UNCHANGED <<gridVars, conflictVars, formVars, pageVars, authVars, created, started,
                       refused>>

\* deleteBooking
deleteBooking ==
    \E k \in 1..created.bookings, ok \in BOOLEAN :
        /\ started.others < MaxStoreOps
        /\ started' = [started EXCEPT !.others = @ + 1]
        /\ bookingsDB' = IF ok THEN deleteDoc(bookingsDB, BookingIdOf(k)) ELSE bookingsDB
        /\ lastOp' = [op |-> "deleteBooking", id |-> BookingIdOf(k), result |-> ok]
        /\ UNCHANGED <<gridVars, conflictVars, pageVars, authVars, dialogVars, tasks, lastToast,
                       signals, submits, historyVars, locationsDB, roomsDB, ops, created,
                       refused>>

\* addRoom, for a location of the list the caller holds
addRoom ==
    \E k \in {j \in 1..created.locations : LocationIdOf(j) \in IdsOf(locationsDB)},
       ok \in BOOLEAN :
        /\ started.others < MaxStoreOps
        /\ created.rooms < MaxCreatedRooms
        /\ started' = [started EXCEPT !.others = @ + 1]
        /\ IF ok
           THEN /\ roomsDB' = Append(roomsDB, [id |-> RoomIdOf(created.rooms + 1),
                                               name |-> "New Room",
                                               locationId |-> LocationIdOf(k)])
                /\ created' = [created EXCEPT !.rooms = @ + 1]
           ELSE UNCHANGED <<roomsDB, created>>
        /\ lastOp' = [op |-> "addRoom",
                      id |-> IF ok THEN RoomIdOf(created.rooms + 1) ELSE "",
                      result |-> ok]
        /\ UNCHANGED <<gridVars, conflictVars, formVars, pageVars, authVars, locationsDB, ops,
                       refused>>

\* the booking data handed to addBooking, for a room of the list the caller holds
NewBookings ==
    {[roomId |-> RoomIdOf(k), guestName |-> "ann", startDate |-> Today + d,
      endDate |-> addDays(Today, 1), status |-> "maintenance"] :
        k \in {j \in 1..created.rooms : RoomIdOf(j) \in IdsOf(roomsDB)},
        d \in 0..(TicksPerDay - 2)}

\* the Booking addBooking returns: {...bookingData, id: docRef.id}
addedBooking(bookingData, id) ==
    [id |-> id, roomId |-> bookingData.roomId, guestName |-> bookingData.guestName,
     startDate |-> bookingData.startDate, endDate |-> bookingData.endDate,
     status |-> bookingData.status]

\* addBooking
addBooking ==
    \E bookingData \in NewBookings, ok \in BOOLEAN :
        /\ started.others < MaxStoreOps
        /\ created.bookings < MaxCreatedBookings
        /\ started' = [started EXCEPT !.others = @ + 1]
        /\ LET newBooking == addedBooking(bookingData, BookingIdOf(created.bookings + 1))
           IN  /\ IF ok
                  THEN /\ bookingsDB' = Append(bookingsDB, bookingDocOf(newBooking))
                       /\ created' = [created EXCEPT !.bookings = @ + 1]
                  ELSE UNCHANGED <<bookingsDB, created>>
               /\ lastOp' = [op |-> "addBooking", id |-> IF ok THEN newBooking.id ELSE "",
                             result |-> ok, data |-> bookingData]
        /\ UNCHANGED <<gridVars, conflictVars, pageVars, authVars, dialogVars, tasks, lastToast,
                       signals, submits, historyVars, locationsDB, roomsDB, ops, refused>>

\* one data-layer call at a time
Sequential == ops = {}

NextStore ==
    \/ Sequential /\ seedInitialData
    \/ seedInitialDataCommitted
    \/ Sequential /\ deleteLocation
    \/ Sequential /\ deleteRoom
    \/ deleteCommitted
    \/ Sequential /\ deleteBooking
    \/ Sequential /\ addRoom
    \/ Sequential /\ addBooking

SpecStore == InitStore /\ [][NextStore]_vars

\* calls made while others are suspended at an await
NextStoreRace ==
    \/ seedInitialData
    \/ seedInitialDataCommitted
    \/ deleteLocation
    \/ deleteRoom
    \/ deleteCommitted
    \/ deleteBooking
    \/ addRoom
    \/ addBooking

SpecStoreRace == InitStore /\ [][NextStoreRace]_vars

----------------------------------------------------------------------------
\* C15

\* the step in which a data-layer call returns
Returned == (started' # started /\ ops' = ops) \/ (ops' # ops /\ ops' \subseteq ops)

\* C15: a deleteLocation of a location with a room, and a deleteRoom of a room
\* with a booking, returns false and leaves locations, rooms and bookings as
\* they were; a delete is refused only because of such a dependent; and a
\* delete that succeeds removes exactly the entity it names and nothing else.
C15_Step ==
    LET withRooms(id) == \E k \in DOMAIN roomsDB : roomsDB[k].locationId = id
        withBookings(id) == \E k \in DOMAIN bookingsDB : bookingsDB[k].roomId = id
    IN
    /\ \A t \in ops' \ ops :
        /\ t.op = "deleteLocation" => ~withRooms(t.id)
        /\ t.op = "deleteRoom" => ~withBookings(t.id)
    /\ (Returned /\ lastOp'.op = "deleteLocation" /\ withRooms(lastOp'.id)) =>
            /\ lastOp'.result = FALSE
            /\ UNCHANGED <<locationsDB, roomsDB, bookingsDB>>
    /\ (Returned /\ lastOp'.op = "deleteRoom" /\ withBookings(lastOp'.id)) =>
            /\ lastOp'.result = FALSE
            /\ UNCHANGED <<locationsDB, roomsDB, bookingsDB>>
    /\ \A r \in refused' \ refused :
        /\ r.op = "deleteLocation" => withRooms(r.id)
        /\ r.op = "deleteRoom" => withBookings(r.id)
    /\ (Returned /\ lastOp'.op = "deleteLocation" /\ lastOp'.result = TRUE) =>
            /\ IdsOf(locationsDB') = IdsOf(locationsDB) \ {lastOp'.id}
            /\ Len(locationsDB') >= Len(locationsDB) - 1
            /\ UNCHANGED <<roomsDB, bookingsDB>>
    /\ (Returned /\ lastOp'.op = "deleteRoom" /\ lastOp'.result = TRUE) =>
            /\ IdsOf(roomsDB') = IdsOf(roomsDB) \ {lastOp'.id}
            /\ Len(roomsDB') >= Len(roomsDB) - 1
            /\ UNCHANGED <<locationsDB, bookingsDB>>

C15_ReferentialGuards == [][C15_Step]_vars

\* the delete of the Sunrise Suite was refused while Alice's booking referred
\* to it and has succeeded after that booking was deleted
C15_Witness ==
    /\ [op |-> "deleteRoom", id |-> RoomIdOf(1)] \in refused
    /\ lastOp = [op |-> "deleteRoom", id |-> RoomIdOf(1), result |-> TRUE]
    /\ IdsOf(roomsDB) = {RoomIdOf(2), RoomIdOf(3)}
    /\ IdsOf(bookingsDB) = {BookingIdOf(2)}
    /\ Len(locationsDB) = 2

----------------------------------------------------------------------------
\* C16

\* the numbers of stored locations, rooms and bookings
StoreCounts == <<Len(locationsDB), Len(roomsDB), Len(bookingsDB)>>

\* C16: a seedInitialData called while a location exists writes nothing, and
\* after any number of calls in sequence on an empty store (and no other call)
\* the store is empty, when no seed has gone through, or holds what one seed
\* writes: 2 locations, 3 rooms in the first of them and 2 bookings.
C16_Step ==
    /\ (started'.seeds # started.seeds /\ Len(locationsDB) > 0) =>
            /\ UNCHANGED <<locationsDB, roomsDB, bookingsDB, ops>>
            /\ lastOp'.op = "seed"
    /\ (started'.others = 0 /\ ops' = {}) =>
            \/ StoreCounts' = <<0, 0, 0>>
            \/ /\ StoreCounts' = <<2, 3, 2>>
               /\ IdsOf(locationsDB') = {LocationIdOf(1), LocationIdOf(2)}
               /\ {roomsDB'[i].locationId : i \in DOMAIN roomsDB'} = {LocationIdOf(1)}
               /\ {bookingsDB'[i].roomId : i \in DOMAIN bookingsDB'} \subseteq IdsOf(roomsDB')
               /\ {bookingsDB'[i].guestName : i \in DOMAIN bookingsDB'}
                      = {"Alice Wonderland", "Bob The Builder"}

C16_SeedIdempotent == [][C16_Step]_vars

\* a second seedInitialData has returned without writing after the first seeded
C16_Witness ==
    /\ started = [seeds |-> 2, others |-> 0]
    /\ ops = {}
    /\ lastOp = [op |-> "seed", id |-> "", result |-> "skipped"]
    /\ StoreCounts = <<2, 3, 2>>

----------------------------------------------------------------------------
\* Listing the bookings of a location with many rooms

ManyRoomId(k) == "room" \o ToString(k)

\* a location with n rooms, and one room of the other location
ManyRooms(n) ==
    [k \in 1..n |-> [id |-> ManyRoomId(k), name |-> "Room", locationId |-> LocationIdOf(1)]]
        \o <<[id |-> "annex", name |-> "Annex", locationId |-> LocationIdOf(2)]>>

\* the rooms the stored bookings are for: the first, the last two, the other location's
BookedRooms(n) == {ManyRoomId(1), ManyRoomId(n - 1), ManyRoomId(n), "annex"}

RECURSIVE BookingsFor(_, _)
BookingsFor(roomSet, len) ==
    IF len = 0 THEN {<<>>}
    ELSE LET shorter == BookingsFor(roomSet, len - 1)
         IN  shorter \cup
             {Append(sq, StoredBooking(BookingIdOf(Len(sq) + 1), r)) :
                  sq \in {x \in shorter : Len(x) = len - 1}, r \in roomSet}

InitQuery ==
    /\ GridIdle
    /\ ConflictIdle
    /\ FormIdle
    /\ PageIdle
    /\ NoCalls
    /\ AuthIdle
    /\ locationsDB = seedLocations(0)
    /\ \E n \in (MaxRooms - 2)..MaxRooms :
        /\ roomsDB = ManyRooms(n)
        /\ bookingsDB \in BookingsFor(BookedRooms(n), MaxListed)
    /\ created = [locations |-> 2, rooms |-> Len(roomsDB), bookings |-> Len(bookingsDB)]

\* a call of getBookingsByLocation and what it returns
listBookingsByLocation ==
    \E k \in 1..Len(locationsDB), ok \in BOOLEAN :
        /\ lastOp' = [op |-> "getBookingsByLocation", id |-> LocationIdOf(k), ok |-> ok,
                      result |-> getBookingsByLocation(bookingsDB, LocationIdOf(k), ok)]
        /\ UNCHANGED <<gridVars, conflictVars, formVars, pageVars, authVars, locationsDB, roomsDB,
                       ops, created, started, refused>>

NextQuery == listBookingsByLocation

SpecQuery == InitQuery /\ [][NextQuery]_vars

----------------------------------------------------------------------------
\* C17

\* C17: what getBookingsByLocation returns, when its reads succeed, is exactly
\* the stored bookings whose room belongs to the location, each once, however
\* many rooms the location has (more than 30 included).
C17_ExactBookingsOfLocation ==
    (lastOp # Null /\ lastOp.op = "getBookingsByLocation" /\ lastOp.ok) =>
        LET roomsOfLocation == {roomsDB[i].id : i \in {j \in DOMAIN roomsDB :
                                                  roomsDB[j].locationId = lastOp.id}}
            expected == {bookingsDB[i].id : i \in {j \in DOMAIN bookingsDB :
                                              bookingsDB[j].roomId \in roomsOfLocation}}
        IN  /\ IdsOf(lastOp.result) = expected
            /\ Len(lastOp.result) = Cardinality(expected)

----------------------------------------------------------------------------
\* C18

\* C18: when addBooking(data) has succeeded, the bookings listed for
\* data.roomId hold a record with a newly generated id whose roomId, guestName,
\* startDate, endDate and status are those of data, and every booking stored
\* before is stored unchanged.
C18_Step ==
    (Returned /\ lastOp'.op = "addBooking" /\ lastOp'.result = TRUE) =>
        LET data == lastOp'.data
            listed == getBookingsByRoomId(bookingsDB', data.roomId)
        IN  /\ lastOp'.id \notin IdsOf(bookingsDB)
            /\ \E i \in DOMAIN listed :
                /\ listed[i].id = lastOp'.id
                /\ listed[i].roomId = data.roomId
                /\ listed[i].guestName = data.guestName
                /\ listed[i].startDate = data.startDate
                /\ listed[i].endDate = data.endDate
                /\ listed[i].status = data.status
            /\ Cardinality({i \in DOMAIN listed : listed[i].id = lastOp'.id}) = 1
            /\ Len(bookingsDB') = Len(bookingsDB) + 1
            /\ \A j \in DOMAIN bookingsDB : bookingsDB'[j] = bookingsDB[j]
            /\ UNCHANGED <<locationsDB, roomsDB>>

C18_AddBookingRoundTrip == [][C18_Step]_vars

\* a booking starting at a time of day has been added to the Sunrise Suite,
\* next to Alice's
C18_Witness ==
    /\ lastOp # Null
    /\ lastOp.op = "addBooking"
    /\ lastOp.result = TRUE
    /\ lastOp.data.roomId = RoomIdOf(1)
    /\ lastOp.data.startDate % TicksPerDay # 0
    /\ Len(getBookingsByRoomId(bookingsDB, RoomIdOf(1))) = 2
    /\ lastOp.id \in IdsOf(getBookingsByRoomId(bookingsDB, RoomIdOf(1)))

----------------------------------------------------------------------------
\* C19

\* the bookings that carry a time of day at their start or at their end
WithTimeOfDay ==
    {i \in DOMAIN initialBookings :
        \/ initialBookings[i].startDate % TicksPerDay # 0
        \/ initialBookings[i].endDate % TicksPerDay # 0}

\* C19: the days of the grid are starts of days, and for a booking whose
\* startDate or endDate carries a time of day every displayed day of its room
\* from the day of startDate to the day of endDate, both included, is occupied.
C19_TimeOfDayIgnored ==
    \A r \in DOMAIN calendarData : \A j \in DOMAIN calendarData[r].row :
        LET cell == calendarData[r].row[j]
        IN  /\ cell.date % TicksPerDay = 0
            /\ \A i \in WithTimeOfDay :
                (/\ initialBookings[i].roomId = rooms[r]
                 /\ DayOf(initialBookings[i].startDate) <= DayOf(cell.date)
                 /\ DayOf(cell.date) <= DayOf(initialBookings[i].endDate))
                    => cell.status # "available"

\* the only booking starts and ends at a time of day, on two different
\* displayed days, and both of these days are occupied
C19_Witness ==
    /\ Len(initialBookings) = 1
    /\ initialBookings[1].startDate % TicksPerDay # 0
    /\ initialBookings[1].endDate % TicksPerDay # 0
    /\ DayOf(initialBookings[1].startDate) < DayOf(initialBookings[1].endDate)
    /\ \E r \in DOMAIN calendarData : \E j, k \in DOMAIN calendarData[r].row :
        /\ rooms[r] = initialBookings[1].roomId
        /\ DayOf(calendarData[r].row[j].date) = DayOf(initialBookings[1].startDate)
        /\ DayOf(calendarData[r].row[k].date) = DayOf(initialBookings[1].endDate)
        /\ calendarData[r].row[j].status = initialBookings[1].status
        /\ calendarData[r].row[k].status = initialBookings[1].status

----------------------------------------------------------------------------
\* C20

\* the bookings of the list, by position, that have the room, cover the day
\* and have the status
Matching(roomId, date, status) ==
    {i \in Covering(roomId, date) : initialBookings[i].status = status}

\* C20: the booking of a cell that is not available is the first booking of
\* the list, in its order, that has the cell's room, covers the cell's day and
\* has the cell's status; an available cell has no booking.
C20_FirstMatchingBooking ==
    \A r \in DOMAIN calendarData : \A j \in DOMAIN calendarData[r].row :
        LET cell == calendarData[r].row[j]
            matching == Matching(rooms[r], cell.date, cell.status)
        IN  IF cell.status = "available"
            THEN cell.booking = NoBooking
            ELSE /\ matching # {}
                 /\ cell.booking = bookings[Min(matching)]
                 /\ cell.booking.id = initialBookings[Min(matching)].id

\* two bookings of the same room and status, with different dates, cover the
\* same displayed day, and the cell refers to the one listed first
C20_Witness ==
    /\ Len(initialBookings) = 2
    /\ initialBookings[1].roomId = initialBookings[2].roomId
    /\ initialBookings[1].status = initialBookings[2].status
    /\ initialBookings[1].startDate # initialBookings[2].startDate
    /\ \E r \in DOMAIN calendarData : \E j \in DOMAIN calendarData[r].row :
        /\ Matching(rooms[r], calendarData[r].row[j].date,
                    calendarData[r].row[j].status) = {1, 2}
        /\ calendarData[r].row[j].booking.id = initialBookings[1].id

----------------------------------------------------------------------------
\* C21

\* the submission whose write is being issued was checked against bookings
\* fetched for its room
CheckedForRoom(u, checked) ==
    /\ checked.n = u.n
    /\ checked.data = u.data
    /\ \A i \in DOMAIN checked.existing : checked.existing[i].roomId = u.data.roomId
    /\ {checked.existing[i].id : i \in DOMAIN checked.existing} \in
            {{}, {bookingsDB[i].id : i \in {j \in DOMAIN bookingsDB :
                                        bookingsDB[j].roomId = u.data.roomId}}}

\* C21: a write is issued only for a submission whose conflict check has run
\* on the bookings fetched for the submitted room: either in the same step,
\* after the fetch returned, or before the overlap alert that was confirmed;
\* the store is written only by such an issued write; and a submission starts
\* with the fetch for the room of the validated form.
C21_Step ==
    /\ \A u \in tasks' \ tasks :
        /\ u.stage = "checking" => (u.data = form /\ bookingFormSchema(form))
        /\ u.stage = "saving" =>
            \/ /\ u.via = "direct"
               /\ \E t \in tasks \ tasks' :
                    /\ t.stage = "checking"
                    /\ CheckedForRoom(u, [t EXCEPT !.existing = u.existing])
            \/ /\ u.via = "confirm"
               /\ warned # Null
               /\ CheckedForRoom(u, warned)
    /\ (bookingsDB' # bookingsDB \/ succeeded' # succeeded) =>
            \E t \in tasks \ tasks' : t.stage = "saving"

----------------------------------------------------------------------------
\* C22

\* C22: a write is issued only by the continuation of a submission's check or
\* by the admin's confirmation of the alert raised for it, never in the step
\* in which a write returns; a submission has at most one task, and when its
\* write has returned nothing of it is left to be written or confirmed, so
\* that a further write needs a new submit, which takes a new number.
C22_Step ==
    /\ \A u \in tasks' \ tasks :
        /\ \A t \in tasks \ tasks' : t.stage # "saving"
        /\ u.stage = "checking" => (u.n = submits + 1 /\ submits' = submits + 1)
        /\ u.stage = "saving" =>
            \/ /\ u.via = "direct"
               /\ \E t \in tasks \ tasks' : t.stage = "checking" /\ t.n = u.n
            \/ /\ u.via = "confirm"
               /\ showOverlapAlert /\ warned # Null /\ warned.n = u.n
               /\ \A t \in tasks : t.n # u.n
    /\ \A t, u \in tasks' : t.n = u.n => t = u
    /\ \A t \in tasks \ tasks' :
        t.stage = "saving" =>
            /\ \A u \in tasks' : u.n # t.n
            /\ warned' = Null
            /\ pendingBookingData' = Null
            /\ ~showOverlapAlert'
    /\ submits' >= submits

C22_NoAutomaticRetry == [][C22_Step]_vars

\* the write of the first submission failed, the admin submitted again, and
\* the write of the second submission is outstanding
C22_Witness ==
    /\ lastWrite # Null
    /\ lastWrite.outcome \in {"fail", "throw"}
    /\ succeeded = 0
    /\ submits = 2
    /\ tasks # {}
    /\ \A t \in tasks : t.n = 2 /\ t.stage = "saving"

----------------------------------------------------------------------------
\* C23

\* C23 as stated: a fetch of the rooms and bookings of a location is started
\* only while isSeeding and isLoadingLocations are both false.
C23_Stated ==
    \A u \in loads' :
        (u.kind \in {"fetch", "updateData"} /\ u \notin loads) =>
            (~isSeeding /\ ~isLoadingLocations)

C23_EveryFetchGated == [][C23_Stated]_vars

\* C23 as amended: the fetch started by the effect on the selection is started
\* only while isSeeding and isLoadingLocations are both false, and for the
\* selected location, so a selection that changes while the location list is
\* loading starts no such fetch before the load has ended; the fetch of a
\* refresh is started by the refresh itself when its own read of the locations
\* has returned, whatever the flags are then.
C23_Step ==
    /\ \A u \in loads' \ loads :
        /\ u.kind = "fetch" =>
            /\ ~isSeeding /\ ~isLoadingLocations
            /\ u.key = selectedLocationId /\ u.key # ""
            /\ selectedLocationId' = selectedLocationId
        /\ u.kind = "updateData" =>
            \E t \in loads \ loads' : t.kind = "updateLocations" /\ t.id = u.id
    /\ (selectedLocationId' # selectedLocationId /\ (isSeeding \/ isLoadingLocations)) =>
            \A u \in loads' \ loads : u.kind # "fetch"

C23_EffectFetchGated == [][C23_Step]_vars

\* the selection was changed during a refresh, the refresh has ended with the
\* lists of the earlier selection, and only now the fetch for the new
\* selection is under way
C23_Witness ==
    /\ shownFor.by = "updateData"
    /\ shownFor.rooms # selectedLocationId
    /\ ~isLoadingLocations /\ ~isSeeding
    /\ \E u \in loads : u.kind = "fetch" /\ u.key = selectedLocationId

----------------------------------------------------------------------------
\* C24

\* every issued data-access call resolves and every pending effect runs; the
\* admin's switches and the data-changed signals are under no obligation
SpecSyncFair ==
    /\ InitSync
    /\ [][NextSync]_vars
    /\ WF_vars(initialLoadSeeded)
    /\ WF_vars(initialLoadLocations)
    /\ WF_vars(fetchLocationSpecificData)
    /\ WF_vars(fetchLocationSpecificDataDone)
    /\ WF_vars(handleDataUpdateLocations)
    /\ WF_vars(handleDataUpdateDone)

\* phase Ready: no flag is set, and nothing is pending that would set one
Ready ==
    /\ ~isSeeding /\ ~isLoadingLocations /\ ~isLoadingLocationData
    /\ Quiescent

\* C24: when every issued call resolves, the controller comes to phase Ready
\* again and again, whatever was mounted, switched or signalled before, and it
\* leaves Ready only by a switch of the location or a data-changed signal.
C24_EventuallyReady ==
    /\ []<>Ready
    /\ [][(Ready /\ ~Ready') => (switches' # switches \/ refreshes' # refreshes)]_vars

\* Ready after the mount, two switches and a data-changed signal
C24_Witness ==
    /\ Ready
    /\ CalendarDisplayed
    /\ switches = MaxSwitches
    /\ refreshes = MaxRefreshes

----------------------------------------------------------------------------
\* C25

\* the refresh t, started under another selection than the current one, takes
\* a step
RefreshStepAfterSwitch(t) ==
    /\ t.kind \in {"updateLocations", "updateData"}
    /\ t \notin loads'
    /\ selectedLocationId # ""
    /\ selectedLocationId # t.key

\* C25: when the location was switched while a refresh started under the
\* earlier selection awaits a fetch, the steps of the refresh leave the new
\* selection in place (its read of the locations having succeeded), and once
\* nothing is pending the lists a refresh has stored are those of the
\* selected location.
C25_Step ==
    /\ \A t \in loads :
        (RefreshStepAfterSwitch(t) /\ shownFor'.locationsOk) =>
            selectedLocationId' = selectedLocationId
    /\ (Quiescent' /\ shownFor'.by = "updateData" /\ selectedLocationId' # "") =>
            ShowsSelected'

C25_SwitchDuringRefresh == [][C25_Step]_vars

----------------------------------------------------------------------------
\* C26

\* C26: whenever the calendar is displayed and no effect is pending, every
\* displayed booking is a booking of a displayed room.
C26_BookingsOfDisplayedRooms ==
    (CalendarDisplayed /\ EffectsFlushed) =>
        \A i \in DOMAIN allBookingsForSelectedLocation :
            \E j \in DOMAIN allRoomsForSelectedLocation :
                allRoomsForSelectedLocation[j].id = allBookingsForSelectedLocation[i].roomId

----------------------------------------------------------------------------
\* C27

\* the days the grid can show for the dates of the conflict check
GridDays == {weekDays(addWeeks(0, w))[j] : w \in 0..1, j \in 1..daysToShow}

\* the candidate as a booking of the list handed to the calendar
CandidateBooking ==
    [id |-> "candidate", roomId |-> candidate.roomId, guestName |-> candidate.guestName,
     startDate |-> candidate.startDate, endDate |-> candidate.endDate,
     status |-> candidate.status]

\* the fetched bookings other than the edited one
OtherFetched ==
    LET other(b) == b.id # editing.id
    IN  SelectSeq(existingBookingsForRoom, other)

\* the grid days whose cell of the candidate's room the grid fills with both
\* the candidate and the booking b
SharedCells(b) ==
    {d \in GridDays :
        Len(dayBookingsOf(processedInitialBookings(<<CandidateBooking, b>>),
                          candidate.roomId, d)) = 2}

\* the number of bookings the grid puts in the cell of the candidate's room
CellLoad(list, d) ==
    Len(dayBookingsOf(processedInitialBookings(list), candidate.roomId, d))

\* C27: the check reports an overlap iff the grid's containment test puts the
\* candidate and some fetched booking of the room (other than the edited one)
\* in the same cell, the booking reported shares a cell with the candidate,
\* and when nothing is reported no cell holds two bookings after the save
\* unless it held two before.
C27_CheckAgreesWithGrid ==
    verdict # Unchecked =>
        /\ (verdict # NoBooking) <=>
                (\E i \in DOMAIN OtherFetched : SharedCells(OtherFetched[i]) # {})
        /\ verdict # NoBooking => SharedCells(verdict) # {}
        /\ verdict = NoBooking =>
                \A d \in GridDays :
                    CellLoad(Append(OtherFetched, CandidateBooking), d) >= 2
                        => CellLoad(existingBookingsForRoom, d) >= 2

\* a new booking that starts at a time of day on the last day of the only
\* fetched booking is reported, and the grid puts both in that one cell
C27_Witness ==
    /\ verdict # Unchecked
    /\ verdict # NoBooking
    /\ editing = NoBooking
    /\ Len(existingBookingsForRoom) = 1
    /\ candidate.startDate % TicksPerDay # 0
    /\ SharedCells(verdict) = {startOfDay(candidate.startDate)}
    /\ startOfDay(verdict.endDate) = startOfDay(candidate.startDate)
    /\ CellLoad(<<verdict, CandidateBooking>>, startOfDay(candidate.startDate)) = 2

----------------------------------------------------------------------------
\* C28

\* C28: when only seedInitialData has been called, by callers that may have
\* checked the store before any of them committed, and every call has
\* returned, the store is empty or holds one copy of the seed data: 2
\* locations, one of them named 'Granada, Spain', 3 rooms and 2 bookings.
C28_OneCopyOfSeed ==
    (started.others = 0 /\ ops = {}) =>
        \/ StoreCounts = <<0, 0, 0>>
        \/ /\ StoreCounts = <<2, 3, 2>>
           /\ Cardinality({i \in DOMAIN locationsDB :
                               locationsDB[i].name = "Granada, Spain"}) = 1

----------------------------------------------------------------------------
\* C29

\* C29: every stored room is a room of a stored location and every stored
\* booking is a booking of a stored room.
C29_NoDanglingReference ==
    /\ \A i \in DOMAIN roomsDB : roomsDB[i].locationId \in IdsOf(locationsDB)
    /\ \A i \in DOMAIN bookingsDB : bookingsDB[i].roomId \in IdsOf(roomsDB)

----------------------------------------------------------------------------
\* AuthProvider (password-based): the in-memory flag and the persisted flag

MaxAuthCalls == 4

ADMIN_PASSWORD == "password123"

Passwords == {ADMIN_PASSWORD, "letmein"}

InitAuth ==
    /\ GridIdle
    /\ ConflictIdle
    /\ FormIdle
    /\ PageIdle
    /\ StoreIdle
    /\ bookingsDB = <<>>
    /\ isAdmin = FALSE
    /\ isLoading = TRUE
    /\ localStorage \in {"", "true"}
    /\ authMounted = FALSE
    /\ logins = {}
    /\ authCalls = 0
    /\ storageFailed = FALSE

\* The mount effect: reads the persisted flag; the read may throw.
AuthProviderEffect ==
    /\ ~authMounted
    /\ authMounted' = TRUE
    /\ \E throws \in BOOLEAN :
        /\ isAdmin' = IF ~throws /\ localStorage = "true" THEN TRUE ELSE isAdmin
        /\ storageFailed' = (storageFailed \/ throws)
    /\ isLoading' = FALSE
    /\ UNCHANGED <<localStorage, logins, authCalls>>
    /\ UNCHANGED <<gridVars, conflictVars, formVars, pageVars, storeVars>>

\* login(password) up to its await.
login ==
    /\ authMounted
    /\ authCalls < MaxAuthCalls
    /\ \E password \in Passwords :
        logins' = logins \cup {[n |-> authCalls + 1, password |-> password]}
    /\ authCalls' = authCalls + 1
    /\ isLoading' = TRUE
    /\ UNCHANGED <<isAdmin, localStorage, authMounted, storageFailed>>
    /\ UNCHANGED <<gridVars, conflictVars, formVars, pageVars, storeVars>>

\* login(password) after the timer has fired.
loginResolved ==
    /\ \E t \in logins :
        /\ logins' = logins \ {t}
        /\ IF t.password = ADMIN_PASSWORD
           THEN /\ isAdmin' = TRUE
                /\ \E throws \in BOOLEAN :
                    /\ localStorage' = IF throws THEN localStorage ELSE "true"
                    /\ storageFailed' = (storageFailed \/ throws)
           ELSE /\ isAdmin' = FALSE
                /\ UNCHANGED <<localStorage, storageFailed>>
    /\ isLoading' = FALSE
    /\ UNCHANGED <<authMounted, authCalls>>
    /\ UNCHANGED <<gridVars, conflictVars, formVars, pageVars, storeVars>>

logout ==
    /\ authMounted
    /\ authCalls < MaxAuthCalls
    /\ authCalls' = authCalls + 1
    /\ isAdmin' = FALSE
    /\ \E throws \in BOOLEAN :
        /\ localStorage' = IF throws THEN localStorage ELSE ""
        /\ storageFailed' = (storageFailed \/ throws)
    /\ UNCHANGED <<isLoading, authMounted, logins>>
    /\ UNCHANGED <<gridVars, conflictVars, formVars, pageVars, storeVars>>

\* A reload of the page: the provider is constructed again, localStorage
\* is what survives.
reload ==
    /\ authMounted
    /\ authCalls < MaxAuthCalls
    /\ authCalls' = authCalls + 1
    /\ isAdmin' = FALSE
    /\ isLoading' = TRUE
    /\ authMounted' = FALSE
    /\ logins' = {}
    /\ UNCHANGED <<localStorage, storageFailed>>
    /\ UNCHANGED <<gridVars, conflictVars, formVars, pageVars, storeVars>>

NextAuth ==
    \/ AuthProviderEffect
    \/ login
    \/ loginResolved
    \/ logout
    \/ reload

SpecAuth == InitAuth /\ [][NextAuth]_vars

----------------------------------------------------------------------------
\* C30

\* C30: once the provider has mounted, and as long as no access to
\* localStorage has thrown, isAdmin is true if and only if the persisted
\* item 'isAdmin' is 'true', whatever login and logout calls were made, a
\* failed login made while logged in included.
C30_FlagAgreesWithPersisted ==
    (authMounted /\ ~storageFailed) => (isAdmin <=> localStorage = "true")

====
